---- MODULE Spec2Model ----
(***************************************************************************)
(* A model of src/train.py of MetaDTA: the learning-rate schedule, the     *)
(* epoch loop of train(), the evaluation loop test() and the script's main *)
(* flow.                                                                   *)
(*                                                                         *)
(* Numbers.  A loss or a metric is modelled as an exact non-negative         *)
(* rational [num, den]; den = 0 is +infinity (float('inf')); NaN is not      *)
(* modelled.  The learning rate of line 22 is computed in IEEE-754 doubles.  *)
(* Affinities (target_y_f, y_pred) are integers in units of 0.5, so the     *)
(* labels 1.5, 2.0, 3.0 are written 3, 4, 6.                                *)
(*                                                                         *)
(* Tensors.  A batch holds target_y_f and y_pred as a sequence of episodes  *)
(* (rows), each a sequence over the positions of the episode; the trailing  *)
(* axis of size 1 is left out.  The result of boolean-mask indexing is a    *)
(* one-dimensional tensor [shape, vals].                                    *)
(***************************************************************************)
EXTENDS Integers, Sequences, FiniteSets, TLC

VARIABLES
    cfg,              \* the run's inputs: args.n_epochs, the loaders' lengths, the values the predictor can output
    pc,               \* position of the control flow
    err,              \* the exception that ended the run, "none" while it runs
    epoch,            \* loop variable of line 37 (-1: the range iterator has not advanced yet)
    train_step,       \* line 35
    best_loss,        \* line 32
    best_model,       \* line 116: <<>> while the local is unbound, <<ref>> once assigned
    trigger_count,    \* line 117: <<>> while unbound, <<0>> once assigned
    heap,             \* the model objects: ref -> parameters (ref 0 is `model`)
    opt_steps,        \* optimizer state: the number of optimizer.step() calls so far
    param_groups,     \* optimizer.param_groups: sequence of [lr |-> ...]
    training,         \* model.training, set by model.train() / model.eval()
    bi,               \* number of batches the loader of the running pass has yielded
    data,             \* the batch in hand: [support_size, target_y_f]
    out,              \* the predictor's output for it: [y_pred, loss]
    truth_list, pred_list,
    train_loss_list, valid_loss_list, test_loss_list,
    train_metrics, val_metrics, test_metrics,   \* <<>> for an empty dict, <<[mae, loss]>> once filled
    ckpt,             \* content of {logdir}/model.pt: <<>> or <<[model_state_dict, optimizer_state_dict]>>
    returned,         \* what train() returned: <<>> or <<ref>>
    seen,             \* history: the batches (with the predictor's output) the running pass has processed
    val_hist,         \* history: val_metrics['loss'] of every epoch whose validation finished
    writes,           \* history: the epochs at whose end the checkpoint file was written
    sched             \* the schedule under study in SpecLR: [init_lr, warmup_step, step_num, lr, prev]

vars == <<cfg, pc, err, epoch, train_step, best_loss, best_model, trigger_count, heap,
          opt_steps, param_groups, training, bi, data, out, truth_list, pred_list,
          train_loss_list, valid_loss_list, test_loss_list, train_metrics, val_metrics,
          test_metrics, ckpt, returned, seen, val_hist, writes, sched>>

\* ---------------------------------------------------------------- bounds
MaxEpochs == 4      \* args.n_epochs ranges over 0..MaxEpochs in Spec
MaxLoss == 5        \* a validation batch loss ranges over 1..MaxLoss and +inf in Spec
MaxBatches == 2     \* each loader yields 0..MaxBatches batches in SpecData
MaxWarmup == 30     \* warmup_step ranges over 1..MaxWarmup and the default in SpecLR
MaxInitLrs == 5     \* init_lr ranges over the first MaxInitLrs entries of InitLrs in SpecLR
MaxDecaySteps == 4  \* SpecLR follows the schedule for MaxDecaySteps steps after warmup_step

\* ---------------------------------------------------------------- floats
Inf == [num |-> 1, den |-> 0]
Num(n) == [num |-> n, den |-> 1]

RECURSIVE Gcd(_, _)
Gcd(a, b) == IF b = 0 THEN a ELSE Gcd(b, a % b)

Norm(q) ==
    IF q.den = 0 THEN Inf
    ELSE LET g == Gcd(q.num, q.den) IN [num |-> q.num \div g, den |-> q.den \div g]

\* a < b and a <= b on floats (cross-multiplication; +inf is den = 0)
Lt(a, b) == a.num * b.den < b.num * a.den
Le(a, b) == ~Lt(b, a)
Add(a, b) ==
    IF a.den = 0 \/ b.den = 0 THEN Inf
    ELSE Norm([num |-> a.num * b.den + b.num * a.den, den |-> a.den * b.den])
DivN(a, n) == IF a.den = 0 THEN Inf ELSE Norm([num |-> a.num, den |-> a.den * n])

RECURSIVE SumF(_)
SumF(s) == IF s = <<>> THEN Num(0) ELSE Add(Head(s), SumF(Tail(s)))

Abs(x) == IF x < 0 THEN 0 - x ELSE x

\* ---------------------------------------------------------------- learning-rate schedule
WarmupDefault == 4000

\* ---------------------------------------------------------------- doubles
\* A finite IEEE-754 double is [e, m]: the value m * 2^e with m < 2^53 written as
\* four limbs in base 2^14, most significant first (the first limb has 11 bits),
\* and -1074 <= e <= 971; a normal double has 2^52 <= m, a subnormal one or zero
\* has m < 2^52 and e = -1074.  Results are rounded to nearest, ties to even, as
\* the hardware does.
LimbBase == 2^14
Dbl(t) == [e |-> t[1], m |-> <<t[2], t[3], t[4], t[5]>>]
Zero == [e |-> -1074, m |-> <<0, 0, 0, 0>>]
Infinity == [e |-> 972, m |-> <<2^10, 0, 0, 0>>]
NaN == [e |-> 973, m |-> <<0, 0, 0, 0>>]

\* a < b on doubles (false when either is NaN)
LtD(a, b) ==
    /\ a # NaN /\ b # NaN
    /\ \/ a.e < b.e
       \/ /\ a.e = b.e
          /\ \E i \in 1..4 : a.m[i] < b.m[i] /\ \A j \in 1..(i - 1) : a.m[j] = b.m[j]

RECURSIVE Log2(_)
Log2(n) == IF n < 2 THEN 0 ELSE 1 + Log2(n \div 2)

\* the limbs of the columns cols (least significant first) after carrying
RECURSIVE Carry(_, _)
Carry(cols, c) ==
    IF cols = <<>> THEN <<c>>
    ELSE <<(Head(cols) + c) % LimbBase>> \o Carry(Tail(cols), (Head(cols) + c) \div LimbBase)

\* the 8 limbs (least significant first) of the product of two 4-limb mantissas
MulLimbs(x, y) ==
    LET col(k) == LET t(i) == IF k - i \in 0..3 THEN x[4 - i] * y[4 - (k - i)] ELSE 0
                  IN  t(0) + t(1) + t(2) + t(3)
    IN  Carry(<<col(0), col(1), col(2), col(3), col(4), col(5), col(6)>>, 0)

\* m + 1 on four limbs (the first limb may reach 2^11)
IncLimbs(m) ==
    LET c4 == (m[4] + 1) \div LimbBase
        c3 == (m[3] + c4) \div LimbBase
        c2 == (m[2] + c3) \div LimbBase
    IN  <<m[1] + c2, (m[2] + c3) % LimbBase, (m[3] + c4) % LimbBase, (m[4] + 1) % LimbBase>>

\* the next double above a finite x
Succ(x) ==
    LET m == IncLimbs(x.m)
    IN  IF m[1] = 2^11 THEN [e |-> x.e + 1, m |-> <<2^10, 0, 0, 0>>] ELSE [e |-> x.e, m |-> m]

\* The exact value p * 2^e (p in limbs, least significant first, of at least 53
\* bits unless the result is subnormal) rounded to a double: p is shifted right
\* by sh bits, down to 53 bits or to the exponent -1074, whichever is coarser;
\* the bit below the cut (guard) and those below it (sticky) decide the rounding;
\* a result above the largest finite double is infinity.
Round(p, e) ==
    IF \A i \in 1..Len(p) : p[i] = 0 THEN Zero
    ELSE LET top == CHOOSE i \in 1..Len(p) : p[i] # 0 /\ \A j \in (i + 1)..Len(p) : p[j] = 0
             bits == 14 * (top - 1) + Log2(p[top]) + 1
             sh == IF bits - 53 > -1074 - e THEN bits - 53 ELSE -1074 - e
             G(i) == IF i \in 1..Len(p) THEN p[i] ELSE 0
             q == sh \div 14
             r == sh % 14
             limb(j) == (G(j + q + 1) \div 2^r) + (G(j + q + 2) % 2^r) * 2^(14 - r)
             kept == [e |-> e + sh, m |-> <<limb(3), limb(2), limb(1), limb(0)>>]
             gi == (sh - 1) \div 14 + 1
             go == (sh - 1) % 14
             guard == sh > 0 /\ (G(gi) \div 2^go) % 2 = 1
             sticky == sh > 0 /\ (G(gi) % 2^go # 0 \/ \E i \in 1..Len(p) : i < gi /\ p[i] # 0)
             odd == limb(0) % 2 = 1
             rounded == IF guard /\ (sticky \/ odd) THEN Succ(kept) ELSE kept
         IN  IF rounded.e > 971 THEN Infinity ELSE rounded

\* x * y on doubles whose values are at hand.  (The set constructors here and in
\* MulD bind a name to a value, so that the value is computed once.)
MulValues(u, v) ==
    IF u = NaN \/ v = NaN THEN NaN
    ELSE IF u = Infinity \/ v = Infinity THEN (IF u = Zero \/ v = Zero THEN NaN ELSE Infinity)
    ELSE CHOOSE d \in { Round(p, u.e + v.e) : p \in {MulLimbs(u.m, v.m)} } : TRUE

\* x * y on doubles
MulD(x, y) == CHOOSE d \in { MulValues(u, v) : u \in {x}, v \in {y} } : TRUE

\* A Python int n < 2^56 (a step number) is four limbs in base 2^14, most
\* significant first.
PyInt(n) == <<0, 0, n \div LimbBase, n % LimbBase>>

\* float(n), rounded when n has more than 53 bits
FromInt(n) == CHOOSE d \in { Round(<<0, 0, 0, 0, s[4], s[3], s[2], s[1]>>, -56) : s \in {n} } : TRUE

\* float ** float is the C library's pow on doubles; its values where the model
\* needs them:
\* x ** 0.5 for x in 1..40 and 4000
PowHalf ==
    << <<-52, 1024, 0, 0, 0>>, <<-52, 1448, 2534, 6652, 15309>>, <<-52, 1773, 10158, 8545, 3242>>,
       <<-51, 1024, 0, 0, 0>>, <<-51, 1144, 14201, 11871, 13480>>, <<-51, 1254, 2273, 4132, 8494>>,
       <<-51, 1354, 10234, 10059, 14570>>, <<-51, 1448, 2534, 6652, 15309>>, <<-51, 1536, 0, 0, 0>>,
       <<-51, 1619, 1411, 11113, 6995>>, <<-51, 1698, 1833, 4085, 12084>>, <<-51, 1773, 10158, 8545, 3242>>,
       <<-51, 1846, 692, 4485, 6643>>, <<-51, 1915, 11937, 1440, 16201>>, <<-51, 1982, 15851, 1341, 3802>>,
       <<-50, 1024, 0, 0, 0>>, <<-50, 1055, 8438, 6847, 11527>>, <<-50, 1086, 1900, 13181, 11481>>,
       <<-50, 1115, 14387, 4497, 3577>>, <<-50, 1144, 14201, 11871, 13480>>, <<-50, 1173, 2283, 9300, 7813>>,
       <<-50, 1200, 12229, 9553, 5799>>, <<-50, 1227, 12007, 5596, 1046>>, <<-50, 1254, 2273, 4132, 8494>>,
       <<-50, 1280, 0, 0, 0>>, <<-50, 1305, 5717, 15432, 12278>>, <<-50, 1330, 3522, 14600, 14720>>,
       <<-50, 1354, 10234, 10059, 14570>>, <<-50, 1378, 9866, 4771, 6643>>, <<-50, 1402, 2781, 2266, 9615>>,
       <<-50, 1425, 5696, 5539, 451>>, <<-50, 1448, 2534, 6652, 15309>>, <<-50, 1470, 9962, 1419, 4336>>,
       <<-50, 1492, 11856, 14030, 9122>>, <<-50, 1514, 8461, 1615, 557>>, <<-50, 1536, 0, 0, 0>>,
       <<-50, 1557, 3067, 3471, 7225>>, <<-50, 1578, 1474, 5084, 1625>>, <<-50, 1598, 11788, 1387, 5002>>,
       <<-50, 1619, 1411, 11113, 6995>> >>
    @@ (WarmupDefault :> <<-47, 2023, 14052, 9795, 12839>>)

\* x ** -1.5 for x in 1..40 and 4000
PowMinusOneAndHalf ==
    << <<-52, 1024, 0, 0, 0>>, <<-54, 1448, 2534, 6652, 15309>>, <<-55, 1576, 9029, 13057, 1062>>,
       <<-55, 1024, 0, 0, 0>>, <<-56, 1465, 7037, 1433, 6113>>, <<-56, 1114, 12943, 5493, 13012>>,
       <<-57, 1769, 5008, 7789, 9333>>, <<-57, 1448, 2534, 6652, 15309>>, <<-57, 1213, 10315, 13956, 12136>>,
       <<-57, 1036, 3524, 14976, 14962>>, <<-58, 1796, 5730, 10550, 11971>>, <<-58, 1576, 9029, 13057, 1062>>,
       <<-58, 1398, 3044, 15418, 10267>>, <<-58, 1251, 1442, 10972, 1218>>, <<-58, 1128, 1444, 7462, 4056>>,
       <<-58, 1024, 0, 0, 0>>, <<-59, 1869, 16026, 14285, 14242>>, <<-59, 1716, 5430, 16380, 6007>>,
       <<-59, 1582, 10329, 12142, 3711>>, <<-59, 1465, 7037, 1433, 6113>>, <<-59, 1362, 199, 3107, 6285>>,
       <<-59, 1270, 3458, 12001, 11415>>, <<-59, 1188, 4559, 15358, 2066>>, <<-59, 1114, 12943, 5493, 13012>>,
       <<-59, 1048, 9437, 3014, 10748>>, <<-60, 1977, 5462, 4181, 15788>>, <<-60, 1868, 8274, 11834, 2472>>,
       <<-60, 1769, 5008, 7789, 9333>>, <<-60, 1678, 9558, 8186, 6647>>, <<-60, 1595, 5858, 9423, 12178>>,
       <<-60, 1518, 12923, 7078, 8562>>, <<-60, 1448, 2534, 6652, 15309>>, <<-60, 1382, 13610, 2628, 6906>>,
       <<-60, 1322, 4493, 9877, 5075>>, <<-60, 1266, 198, 3195, 12195>>, <<-60, 1213, 10315, 13956, 12136>>,
       <<-60, 1164, 12490, 14157, 9174>>, <<-60, 1119, 1453, 15723, 2469>>, <<-60, 1076, 5307, 14603, 7902>>,
       <<-60, 1036, 3524, 14976, 14962>> >>
    @@ (WarmupDefault :> <<-70, 1061, 1381, 4719, 8637>>)

\* x ** -0.5 for x in 2^53 .. 2^53 + 7
PowMinusHalfHuge ==
    << <<-79, 1448, 2534, 6652, 15309>>, <<-79, 1448, 2534, 6652, 15309>>, <<-79, 1448, 2534, 6652, 15308>>,
       <<-79, 1448, 2534, 6652, 15307>>, <<-79, 1448, 2534, 6652, 15307>>, <<-79, 1448, 2534, 6652, 15307>>,
       <<-79, 1448, 2534, 6652, 15306>>, <<-79, 1448, 2534, 6652, 15306>> >>

\* x ** -0.5 for x in 1..4010
PowMinusHalf ==
    << <<-52, 1024, 0, 0, 0>>, <<-53, 1448, 2534, 6652, 15309>>, <<-53, 1182, 6772, 5696, 13084>>,
       <<-53, 1024, 0, 0, 0>>, <<-54, 1831, 12892, 5887, 11737>>, <<-54, 1672, 3031, 48, 11326>>,
       <<-54, 1548, 2334, 6815, 14311>>, <<-54, 1448, 2534, 6652, 15309>>, <<-54, 1365, 5461, 5461, 5461>>,
       <<-54, 1295, 4406, 2337, 2319>>, <<-54, 1234, 16227, 13397, 10278>>, <<-54, 1182, 6772, 5696, 13084>>,
       <<-54, 1136, 426, 239, 10390>>, <<-54, 1094, 11502, 5504, 9258>>, <<-54, 1057, 9546, 2899, 14043>>,
       <<-54, 1024, 0, 0, 0>>, <<-55, 1986, 13956, 9034, 12060>>, <<-55, 1930, 14301, 14331, 14950>>,
       <<-55, 1879, 6122, 9298, 14647>>, <<-55, 1831, 12892, 5887, 11737>>, <<-55, 1787, 10501, 7150, 7225>>,
       <<-55, 1746, 8851, 12406, 5456>>, <<-55, 1708, 2458, 14909, 5018>>, <<-55, 1672, 3031, 48, 11326>>,
       <<-55, 1638, 6553, 9830, 6554>>, <<-55, 1606, 9558, 1349, 13852>>, <<-55, 1576, 9029, 13057, 1062>>,
       <<-55, 1548, 2334, 6815, 14311>>, <<-55, 1521, 3542, 6394, 15240>>, <<-55, 1495, 10612, 6786, 12440>>,
       <<-55, 1471, 5351, 9417, 5223>>, <<-55, 1448, 2534, 6652, 15309>>, <<-55, 1426, 723, 7830, 9170>>,
       <<-55, 1404, 15014, 7422, 10513>>, <<-55, 1384, 11480, 12711, 5658>>, <<-55, 1365, 5461, 5461, 5461>>,
       <<-55, 1346, 12394, 9201, 11120>>, <<-55, 1328, 15038, 9455, 3956>>, <<-55, 1311, 12612, 16261, 16287>>,
       <<-55, 1295, 4406, 2337, 2319>>, <<-55, 1279, 6151, 8092, 1399>>, <<-55, 1264, 869, 896, 3587>>,
       <<-55, 1249, 4395, 10375, 13598>>, <<-55, 1234, 16227, 13397, 10278>>, <<-55, 1221, 3133, 9386, 7825>>,
       <<-55, 1207, 13836, 6012, 11422>>, <<-55, 1194, 15171, 12346, 12532>>, <<-55, 1182, 6772, 5696, 13084>>,
       <<-55, 1170, 4681, 2340, 9362>>, <<-55, 1158, 8581, 2045, 8970>>, <<-55, 1147, 1793, 2362, 6393>>,
       <<-55, 1136, 426, 239, 10390>>, <<-55, 1125, 4222, 13270, 14825>>, <<-55, 1114, 12943, 5493, 13012>>,
       <<-55, 1104, 9978, 12313, 5339>>, <<-55, 1094, 11502, 5504, 9258>>, <<-55, 1085, 932, 5943, 11693>>,
       <<-55, 1075, 10851, 1478, 1756>>, <<-55, 1066, 8315, 13805, 13448>>, <<-55, 1057, 9546, 2899, 14043>>,
       <<-55, 1048, 14387, 2044, 12410>>, <<-55, 1040, 6308, 8219, 7805>>, <<-55, 1032, 1556, 4543, 15002>>,
       <<-55, 1024, 0, 0, 0>>, <<-56, 2032, 3032, 8835, 12761>>, <<-56, 2016, 11976, 8368, 3995>>,
       <<-56, 2001, 10226, 8274, 12492>>, <<-56, 1986, 13956, 9034, 12060>>, <<-56, 1972, 6583, 6046, 2391>>,
       <<-56, 1958, 4301, 11093, 7890>>, <<-56, 1944, 6931, 9158, 2780>>, <<-56, 1930, 14301, 14331, 14950>>,
       <<-56, 1917, 9865, 11769, 9040>>, <<-56, 1904, 9851, 14993, 5449>>, <<-56, 1891, 14112, 9114, 14381>>,
       <<-56, 1879, 6122, 9298, 14647>>, <<-56, 1867, 2131, 5045, 11654>>, <<-56, 1855, 2010, 3242, 4627>>,
       <<-56, 1843, 5636, 6103, 4952>>, <<-56, 1831, 12892, 5887, 11737>>, <<-56, 1820, 7281, 12743, 1820>>,
       <<-56, 1809, 5081, 961, 6050>>, <<-56, 1798, 6187, 2995, 9339>>, <<-56, 1787, 10501, 7150, 7225>>,
       <<-56, 1777, 1545, 2988, 12568>>, <<-56, 1766, 11995, 10594, 839>>, <<-56, 1756, 8997, 11751, 6929>>,
       <<-56, 1746, 8851, 12406, 5456>>, <<-56, 1736, 11477, 7009, 15742>>, <<-56, 1727, 413, 8577, 8553>>,
       <<-56, 1717, 8353, 13374, 13204>>, <<-56, 1708, 2458, 14909, 5018>>, <<-56, 1698, 15428, 1679, 4140>>,
       <<-56, 1689, 14427, 4206, 11511>>, <<-56, 1680, 15776, 11121, 10393>>, <<-56, 1672, 3031, 48, 11326>>,
       <<-56, 1663, 8899, 1368, 14318>>, <<-56, 1655, 555, 14625, 1112>>, <<-56, 1646, 10714, 6940, 13704>>,
       <<-56, 1638, 6553, 9830, 6554>>, <<-56, 1630, 4406, 3098, 2900>>, <<-56, 1622, 4222, 11806, 11076>>,
       <<-56, 1614, 5955, 6707, 14897>>, <<-56, 1606, 9558, 1349, 13852>>, <<-56, 1598, 14986, 1789, 12182>>,
       <<-56, 1591, 5812, 5518, 8201>>, <<-56, 1583, 14763, 440, 6899>>, <<-56, 1576, 9029, 13057, 1062>>,
       <<-56, 1569, 4957, 9244, 966>>, <<-56, 1562, 2508, 8065, 15997>>, <<-56, 1555, 1645, 15410, 9410>>,
       <<-56, 1548, 2334, 6815, 14311>>, <<-56, 1541, 4539, 8639, 11805>>, <<-56, 1534, 8227, 15425, 10449>>,
       <<-56, 1527, 13367, 5606, 14773>>, <<-56, 1521, 3542, 6394, 15240>>, <<-56, 1514, 11490, 11242, 2930>>,
       <<-56, 1508, 4414, 12021, 14121>>, <<-56, 1501, 15053, 14850, 15082>>, <<-56, 1495, 10612, 6786, 12440>>,
       <<-56, 1489, 7447, 4468, 5958>>, <<-56, 1483, 5532, 4476, 8133>>, <<-56, 1477, 4841, 15635, 12319>>,
       <<-56, 1471, 5351, 9417, 5223>>, <<-56, 1465, 7037, 1433, 6113>>, <<-56, 1459, 9875, 1878, 1421>>,
       <<-56, 1453, 13842, 15138, 4854>>, <<-56, 1448, 2534, 6652, 15309>>, <<-56, 1442, 8696, 860, 6168>>,
       <<-56, 1436, 15922, 15320, 14851>>, <<-56, 1431, 7810, 11237, 8994>>, <<-56, 1426, 723, 7830, 9170>>,
       <<-56, 1420, 11026, 116, 14830>>, <<-56, 1415, 5931, 7774, 1649>>, <<-56, 1410, 1805, 9327, 13262>>,
       <<-56, 1404, 15014, 7422, 10513>>, <<-56, 1399, 12772, 12183, 10135>>, <<-56, 1394, 11447, 8203, 13122>>,
       <<-56, 1389, 11022, 3461, 9883>>, <<-56, 1384, 11480, 12711, 5658>>, <<-56, 1379, 12807, 8114, 10051>>,
       <<-56, 1374, 14987, 952, 441>>, <<-56, 1370, 1620, 8655, 462>>, <<-56, 1365, 5461, 5461, 5461>>,
       <<-56, 1360, 10111, 4149, 11446>>, <<-56, 1355, 15556, 6709, 11092>>, <<-56, 1351, 5399, 4170, 910>>,
       <<-56, 1346, 12394, 9201, 11120>>, <<-56, 1342, 3761, 6806, 6218>>, <<-56, 1337, 12255, 3315, 12338>>,
       <<-56, 1333, 5095, 9859, 8518>>, <<-56, 1328, 15038, 9455, 3956>>, <<-56, 1324, 9304, 6023, 2579>>,
       <<-56, 1320, 4265, 7869, 15250>>, <<-56, 1315, 16294, 11177, 1526>>, <<-56, 1311, 12612, 16261, 16287>>,
       <<-56, 1307, 9593, 11075, 1125>>, <<-56, 1303, 7226, 3853, 4003>>, <<-56, 1299, 5500, 6625, 5208>>,
       <<-56, 1295, 4406, 2337, 2319>>, <<-56, 1291, 3933, 10284, 7590>>, <<-56, 1287, 4073, 4093, 4505>>,
       <<-56, 1283, 4815, 9927, 8659>>, <<-56, 1279, 6151, 8092, 1399>>, <<-56, 1275, 8071, 14862, 12671>>,
       <<-56, 1271, 10568, 479, 7000>>, <<-56, 1267, 13631, 3749, 13074>>, <<-56, 1264, 869, 896, 3587>>,
       <<-56, 1260, 5041, 3780, 15124>>, <<-56, 1256, 9755, 10677, 14903>>, <<-56, 1252, 15004, 6199, 4303>>,
       <<-56, 1249, 4395, 10375, 13598>>, <<-56, 1245, 10689, 13052, 2816>>, <<-56, 1242, 1111, 6587, 11410>>,
       <<-56, 1238, 8421, 2175, 14725>>, <<-56, 1234, 16227, 13397, 10278>>, <<-56, 1231, 8140, 7008, 4949>>,
       <<-56, 1228, 536, 1183, 224>>, <<-56, 1224, 9791, 16307, 7121>>, <<-56, 1221, 3133, 9386, 7825>>,
       <<-56, 1217, 13322, 5062, 10447>>, <<-56, 1214, 7583, 13643, 15696>>, <<-56, 1211, 2295, 14669, 9214>>,
       <<-56, 1207, 13836, 6012, 11422>>, <<-56, 1204, 9431, 3833, 3796>>, <<-56, 1201, 5458, 9763, 9256>>,
       <<-56, 1198, 1912, 10863, 14568>>, <<-56, 1194, 15171, 12346, 12532>>, <<-56, 1191, 12462, 4766, 15739>>,
       <<-56, 1188, 10162, 13132, 8437>>, <<-56, 1185, 8267, 14944, 16038>>, <<-56, 1182, 6772, 5696, 13084>>,
       <<-56, 1179, 5670, 15217, 13111>>, <<-56, 1176, 4958, 9334, 12117>>, <<-56, 1173, 4630, 4523, 14431>>,
       <<-56, 1170, 4681, 2340, 9362>>, <<-56, 1167, 5106, 5769, 12752>>, <<-56, 1164, 5901, 2809, 9098>>,
       <<-56, 1161, 7060, 15591, 6736>>, <<-56, 1158, 8581, 2045, 8970>>, <<-56, 1155, 10457, 3326, 15418>>,
       <<-56, 1152, 12684, 12714, 3933>>, <<-56, 1149, 15259, 8349, 7393>>, <<-56, 1147, 1793, 2362, 6393>>,
       <<-56, 1144, 5049, 8075, 14300>>, <<-56, 1141, 8640, 7211, 10195>>, <<-56, 1138, 12561, 15400, 14268>>,
       <<-56, 1136, 426, 239, 10390>>, <<-56, 1133, 4996, 12336, 10426>>, <<-56, 1130, 9886, 5065, 14207>>,
       <<-56, 1127, 15090, 14767, 12291>>, <<-56, 1125, 4222, 13270, 14825>>, <<-56, 1122, 10046, 6174, 7908>>,
       <<-56, 1119, 16174, 59, 1006>>, <<-56, 1117, 6218, 2466, 1299>>, <<-56, 1114, 12943, 5493, 13012>>,
       <<-56, 1112, 3578, 2161, 12297>>, <<-56, 1109, 10887, 2775, 12130>>, <<-56, 1107, 2099, 2141, 3969>>,
       <<-56, 1104, 9978, 12313, 5339>>, <<-56, 1102, 1754, 13427, 101>>, <<-56, 1099, 10192, 2832, 595>>,
       <<-56, 1097, 2519, 11460, 2043>>, <<-56, 1094, 11502, 5504, 9258>>, <<-56, 1092, 4369, 1092, 4369>>,
       <<-56, 1089, 13884, 15116, 2854>>, <<-56, 1087, 7278, 16068, 1065>>, <<-56, 1085, 932, 5943, 11693>>,
       <<-56, 1082, 11226, 3844, 6776>>, <<-56, 1080, 5389, 13194, 13836>>, <<-56, 1077, 16188, 5345, 4547>>,
       <<-56, 1075, 10851, 1478, 1756>>, <<-56, 1073, 5759, 7058, 11500>>, <<-56, 1071, 910, 11822, 9234>>,
       <<-56, 1068, 12686, 6146, 12922>>, <<-56, 1066, 8315, 13805, 13448>>, <<-56, 1064, 4180, 10039, 8012>>,
       <<-56, 1062, 278, 3461, 5273>>, <<-56, 1059, 12990, 3279, 2146>>, <<-56, 1057, 9546, 2899, 14043>>,
       <<-56, 1055, 6327, 12686, 10972>>, <<-56, 1053, 3332, 10796, 5176>>, <<-56, 1051, 558, 8704, 11630>>,
       <<-56, 1048, 14387, 2044, 12410>>, <<-56, 1046, 12048, 3364, 6707>>, <<-56, 1044, 9923, 9348, 15354>>,
       <<-56, 1042, 8011, 811, 6971>>, <<-56, 1040, 6308, 8219, 7805>>, <<-56, 1038, 4813, 13382, 1929>>,
       <<-56, 1036, 3524, 14976, 14962>>, <<-56, 1034, 2439, 12157, 4366>>, <<-56, 1032, 1556, 4543, 15002>>,
       <<-56, 1030, 872, 8600, 10036>>, <<-56, 1028, 386, 8473, 16105>>, <<-56, 1026, 96, 5137, 9204>>,
       <<-56, 1024, 0, 0, 0>>, <<-57, 2044, 191, 6178, 14375>>, <<-57, 2040, 763, 556, 1483>>,
       <<-57, 2036, 1711, 4853, 6838>>, <<-57, 2032, 3032, 8835, 12761>>, <<-57, 2028, 4723, 3065, 3936>>,
       <<-57, 2024, 6779, 11655, 5018>>, <<-57, 2020, 9198, 10337, 8254>>, <<-57, 2016, 11976, 8368, 3995>>,
       <<-57, 2012, 15109, 15747, 15673>>, <<-57, 2009, 2211, 10440, 8077>>, <<-57, 2005, 6046, 3896, 12868>>,
       <<-57, 2001, 10226, 8274, 12492>>, <<-57, 1997, 14749, 3659, 8372>>, <<-57, 1994, 3227, 3587, 11126>>,
       <<-57, 1990, 8425, 5884, 1885>>, <<-57, 1986, 13956, 9034, 12060>>, <<-57, 1983, 3433, 12175, 10186>>,
       <<-57, 1979, 9621, 15082, 5341>>, <<-57, 1975, 16134, 1775, 6614>>, <<-57, 1972, 6583, 6046, 2391>>,
       <<-57, 1968, 13734, 13142, 8504>>, <<-57, 1965, 4817, 8911, 4966>>, <<-57, 1961, 12596, 12556, 6964>>,
       <<-57, 1958, 4301, 11093, 7890>>, <<-57, 1954, 12697, 8492, 7342>>, <<-57, 1951, 5013, 9284, 9320>>,
       <<-57, 1947, 14015, 2169, 6943>>, <<-57, 1944, 6931, 9158, 2780>>, <<-57, 1941, 144, 3644, 15551>>,
       <<-57, 1937, 10034, 8702, 7640>>, <<-57, 1934, 3831, 15153, 11842>>, <<-57, 1930, 14301, 14331, 14950>>,
       <<-57, 1927, 8673, 14456, 7710>>, <<-57, 1924, 3329, 7857, 4478>>, <<-57, 1920, 14650, 3734, 16145>>,
       <<-57, 1917, 9865, 11769, 9040>>, <<-57, 1914, 5357, 9344, 13598>>, <<-57, 1911, 1123, 7077, 5922>>,
       <<-57, 1907, 13544, 16041, 4532>>, <<-57, 1904, 9851, 14993, 5449>>, <<-57, 1901, 6425, 15902, 1303>>,
       <<-57, 1898, 3264, 14789, 2521>>, <<-57, 1895, 366, 8106, 11370>>, <<-57, 1891, 14112, 9114, 14381>>,
       <<-57, 1888, 11732, 15107, 9463>>, <<-57, 1885, 9609, 7406, 2150>>, <<-57, 1882, 7740, 505, 3705>>,
       <<-57, 1879, 6122, 9298, 14647>>, <<-57, 1876, 4754, 16306, 10060>>, <<-57, 1873, 3635, 4435, 8556>>,
       <<-57, 1870, 2761, 6126, 11870>>, <<-57, 1867, 2131, 5045, 11654>>, <<-57, 1864, 1743, 1612, 14287>>,
       <<-57, 1861, 1594, 12998, 1742>>, <<-57, 1858, 1684, 7579, 8708>>, <<-57, 1855, 2010, 3242, 4627>>,
       <<-57, 1852, 2570, 1837, 6616>>, <<-57, 1849, 3362, 5560, 13619>>, <<-57, 1846, 4385, 564, 7545>>,
       <<-57, 1843, 5636, 6103, 4952>>, <<-57, 1840, 7114, 8994, 11817>>, <<-57, 1837, 8817, 12765, 12419>>,
       <<-57, 1834, 10744, 4880, 8693>>, <<-57, 1831, 12892, 5887, 11737>>, <<-57, 1828, 15260, 3880, 1810>>,
       <<-57, 1826, 1462, 3642, 4272>>, <<-57, 1823, 4264, 10262, 2893>>, <<-57, 1820, 7281, 12743, 1820>>,
       <<-57, 1817, 10512, 383, 6793>>, <<-57, 1814, 13953, 11924, 7502>>, <<-57, 1812, 1221, 4474, 10229>>,
       <<-57, 1809, 5081, 961, 6050>>, <<-57, 1806, 9147, 8207, 5654>>, <<-57, 1803, 13419, 542, 9689>>,
       <<-57, 1801, 1510, 1720, 12909>>, <<-57, 1798, 6187, 2995, 9339>>, <<-57, 1795, 11064, 12268, 14827>>,
       <<-57, 1792, 16141, 4935, 8647>>, <<-57, 1790, 5031, 5799, 7141>>, <<-57, 1787, 10501, 7150, 7225>>,
       <<-57, 1784, 16166, 1528, 12736>>, <<-57, 1782, 5639, 14489, 12540>>, <<-57, 1779, 11689, 6296, 8668>>,
       <<-57, 1777, 1545, 2988, 12568>>, <<-57, 1774, 7973, 14459, 9429>>, <<-57, 1771, 14590, 1684, 5274>>,
       <<-57, 1769, 5008, 7789, 9333>>, <<-57, 1766, 11995, 10594, 839>>, <<-57, 1764, 2782, 4525, 11306>>,
       <<-57, 1761, 10135, 618, 10969>>, <<-57, 1759, 1284, 10126, 8988>>, <<-57, 1756, 8997, 11751, 6929>>,
       <<-57, 1754, 505, 793, 2147>>, <<-57, 1751, 8573, 5530, 8259>>, <<-57, 1749, 433, 5298, 10793>>,
       <<-57, 1746, 8851, 12406, 5456>>, <<-57, 1744, 1059, 6597, 4301>>, <<-57, 1741, 9823, 583, 9809>>,
       <<-57, 1739, 2373, 7275, 6003>>, <<-57, 1736, 11477, 7009, 15742>>, <<-57, 1734, 4365, 13085, 11191>>,
       <<-57, 1731, 13805, 6223, 5141>>, <<-57, 1729, 7027, 99, 11862>>, <<-57, 1727, 413, 8577, 8553>>,
       <<-57, 1724, 10347, 12934, 12072>>, <<-57, 1722, 4060, 11014, 8785>>, <<-57, 1719, 14319, 838, 16053>>,
       <<-57, 1717, 8353, 13374, 13204>>, <<-57, 1715, 2547, 14227, 4127>>, <<-57, 1712, 13284, 1941, 14863>>,
       <<-57, 1710, 7793, 8002, 9803>>, <<-57, 1708, 2458, 14909, 5018>>, <<-57, 1705, 13663, 5328, 1865>>,
       <<-57, 1703, 8637, 11241, 3024>>, <<-57, 1701, 3764, 15640, 12633>>, <<-57, 1698, 15428, 1679, 4140>>,
       <<-57, 1696, 10858, 1819, 3324>>, <<-57, 1694, 6437, 15911, 7932>>, <<-57, 1692, 2166, 11193, 6084>>,
       <<-57, 1689, 14427, 4206, 11511>>, <<-57, 1687, 10450, 11644, 933>>, <<-57, 1685, 6620, 1194, 15705>>,
       <<-57, 1683, 2934, 6232, 1758>>, <<-57, 1680, 15776, 11121, 10393>>, <<-57, 1678, 12378, 373, 6287>>,
       <<-57, 1676, 9121, 7791, 3574>>, <<-57, 1674, 6006, 1783, 5720>>, <<-57, 1672, 3031, 48, 11326>>,
       <<-57, 1670, 195, 4039, 3937>>, <<-57, 1667, 13881, 15342, 7756>>, <<-57, 1665, 11322, 2911, 12669>>,
       <<-57, 1663, 8899, 1368, 14318>>, <<-57, 1661, 6611, 12698, 5383>>, <<-57, 1659, 4459, 6245, 16373>>,
       <<-57, 1657, 2441, 637, 9306>>, <<-57, 1655, 555, 14625, 1112>>, <<-57, 1652, 15187, 1549, 7141>>,
       <<-57, 1650, 13565, 13179, 1396>>, <<-57, 1648, 12075, 3100, 8157>>, <<-57, 1646, 10714, 6940, 13704>>,
       <<-57, 1644, 9482, 11294, 9426>>, <<-57, 1642, 8379, 2874, 2475>>, <<-57, 1640, 7403, 1276, 10337>>,
       <<-57, 1638, 6553, 9830, 6554>>, <<-57, 1636, 5829, 15593, 14196>>, <<-57, 1634, 5231, 5738, 3018>>,
       <<-57, 1632, 4757, 313, 16273>>, <<-57, 1630, 4406, 3098, 2900>>, <<-57, 1628, 4178, 1592, 10433>>,
       <<-57, 1626, 4071, 16175, 1354>>, <<-57, 1624, 4087, 1793, 13772>>, <<-57, 1622, 4222, 11806, 11076>>,
       <<-57, 1620, 4478, 1371, 10371>>, <<-57, 1618, 4852, 7669, 14563>>, <<-57, 1616, 5345, 2448, 10231>>,
       <<-57, 1614, 5955, 6707, 14897>>, <<-57, 1612, 6682, 8779, 9854>>, <<-57, 1610, 7525, 13478, 4307>>,
       <<-57, 1608, 8484, 9332, 1434>>, <<-57, 1606, 9558, 1349, 13852>>, <<-57, 1604, 10745, 11019, 13752>>,
       <<-57, 1602, 12046, 10772, 14353>>, <<-57, 1600, 13460, 5901, 4103>>, <<-57, 1598, 14986, 1789, 12182>>,
       <<-57, 1597, 239, 3914, 10374>>, <<-57, 1595, 1987, 1458, 11762>>, <<-57, 1593, 3845, 78, 5787>>,
       <<-57, 1591, 5812, 5518, 8201>>, <<-57, 1589, 7888, 7227, 12925>>, <<-57, 1587, 10072, 11125, 9627>>,
       <<-57, 1585, 12364, 6833, 1509>>, <<-57, 1583, 14763, 440, 6899>>, <<-57, 1582, 883, 14505, 11876>>,
       <<-57, 1580, 3494, 6134, 5006>>, <<-57, 1578, 6209, 14433, 12264>>, <<-57, 1576, 9029, 13057, 1062>>,
       <<-57, 1574, 11953, 8505, 13830>>, <<-57, 1572, 14980, 7361, 6866>>, <<-57, 1571, 1725, 16284, 652>>,
       <<-57, 1569, 4957, 9244, 966>>, <<-57, 1567, 8290, 9441, 2079>>, <<-57, 1565, 11724, 7383, 6507>>,
       <<-57, 1563, 15258, 10038, 12152>>, <<-57, 1562, 2508, 8065, 15997>>, <<-57, 1560, 6241, 8582, 1560>>,
       <<-57, 1558, 10073, 2393, 8445>>, <<-57, 1556, 14002, 13147, 5419>>, <<-57, 1555, 1645, 15410, 9410>>,
       <<-57, 1553, 5770, 205, 8050>>, <<-57, 1551, 9990, 7776, 13427>>, <<-57, 1549, 14306, 12903, 1304>>,
       <<-57, 1548, 2334, 6815, 14311>>, <<-57, 1546, 6840, 13583, 3144>>, <<-57, 1544, 11441, 8188, 11960>>,
       <<-57, 1542, 16135, 14835, 3463>>, <<-57, 1541, 4539, 8639, 11805>>, <<-57, 1539, 9419, 13937, 705>>,
       <<-57, 1537, 14392, 5975, 234>>, <<-57, 1536, 3072, 9217, 14343>>, <<-57, 1534, 8227, 15425, 10449>>,
       <<-57, 1532, 13474, 37, 7443>>, <<-57, 1531, 2426, 4090, 16368>>, <<-57, 1529, 7852, 3149, 13986>>,
       <<-57, 1527, 13367, 5606, 14773>>, <<-57, 1526, 2587, 3531, 11954>>, <<-57, 1524, 8279, 5438, 582>>,
       <<-57, 1522, 14059, 3515, 726>>, <<-57, 1521, 3542, 6394, 15240>>, <<-57, 1519, 9496, 6384, 4029>>,
       <<-57, 1517, 15536, 12231, 5877>>, <<-57, 1516, 5278, 16357, 14629>>, <<-57, 1514, 11490, 11242, 2930>>,
       <<-57, 1513, 1403, 5802, 11617>>, <<-57, 1511, 7784, 9013, 9825>>, <<-57, 1509, 14249, 13520, 966>>,
       <<-57, 1508, 4414, 12021, 14121>>, <<-57, 1506, 11046, 13656, 13608>>, <<-57, 1505, 1377, 11232, 5258>>,
       <<-57, 1503, 8174, 13992, 11717>>, <<-57, 1501, 15053, 14850, 15082>>, <<-57, 1500, 5630, 6771, 14305>>,
       <<-57, 1498, 12671, 15540, 787>>, <<-57, 1497, 3410, 1454, 15974>>, <<-57, 1495, 10612, 6786, 12440>>,
       <<-57, 1494, 1510, 8319, 9970>>, <<-57, 1492, 8871, 15655, 5970>>, <<-57, 1490, 16312, 5677, 659>>,
       <<-57, 1489, 7447, 4468, 5958>>, <<-57, 1487, 15044, 5393, 5308>>, <<-57, 1486, 6335, 1863, 11888>>,
       <<-57, 1484, 14087, 3722, 12214>>, <<-57, 1483, 5532, 4476, 8133>>, <<-57, 1481, 13437, 14061, 9745>>,
       <<-57, 1480, 5035, 9692, 12012>>, <<-57, 1478, 13093, 1398, 4228>>, <<-57, 1477, 4841, 15635, 12319>>,
       <<-57, 1475, 13049, 13371, 10157>>, <<-57, 1474, 4948, 4768, 11172>>, <<-57, 1472, 13305, 33, 12580>>,
       <<-57, 1471, 5351, 9417, 5223>>, <<-57, 1469, 13855, 10444, 16247>>, <<-57, 1468, 6048, 13453, 4396>>,
       <<-57, 1466, 14698, 12437, 1142>>, <<-57, 1465, 7037, 1433, 6113>>, <<-57, 1463, 15831, 7288, 13674>>,
       <<-57, 1462, 8313, 7739, 6800>>, <<-57, 1461, 866, 13330, 173>>, <<-57, 1459, 9875, 1878, 1421>>,
       <<-57, 1458, 2570, 393, 5192>>, <<-57, 1456, 11719, 3157, 3678>>, <<-57, 1455, 4554, 4490, 13583>>,
       <<-57, 1453, 13842, 15138, 4854>>, <<-57, 1452, 6816, 13114, 9696>>, <<-57, 1450, 16243, 9241, 2268>>,
       <<-57, 1449, 9354, 14377, 7827>>, <<-57, 1448, 2534, 6652, 15309>>, <<-57, 1446, 12165, 13386, 4668>>,
       <<-57, 1445, 5480, 12781, 7037>>, <<-57, 1443, 15246, 15847, 1107>>, <<-57, 1442, 8696, 860, 6168>>,
       <<-57, 1441, 2211, 11670, 11371>>, <<-57, 1439, 12177, 10243, 3346>>, <<-57, 1438, 5825, 7730, 10259>>,
       <<-57, 1436, 15922, 15320, 14851>>, <<-57, 1435, 9701, 11468, 14989>>, <<-57, 1434, 3545, 7432, 2342>>,
       <<-57, 1432, 13837, 14502, 6655>>, <<-57, 1431, 7810, 11237, 8994>>, <<-57, 1430, 1847, 8997, 2503>>,
       <<-57, 1428, 12332, 2790, 4055>>, <<-57, 1427, 6496, 4043, 421>>, <<-57, 1426, 723, 7830, 9170>>,
       <<-57, 1424, 11397, 9260, 8548>>, <<-57, 1423, 5750, 3472, 14867>>, <<-57, 1422, 165, 2023, 12470>>,
       <<-57, 1420, 11026, 116, 14830>>, <<-57, 1419, 5564, 9371, 10999>>, <<-57, 1418, 164, 8670, 10404>>,
       <<-57, 1416, 11209, 9695, 5775>>, <<-57, 1415, 5931, 7774, 1649>>, <<-57, 1414, 713, 14649, 10149>>,
       <<-57, 1412, 11940, 9326, 14039>>, <<-57, 1411, 6843, 3608, 11746>>, <<-57, 1410, 1805, 9327, 13262>>,
       <<-57, 1408, 13211, 5578, 3330>>, <<-57, 1407, 8292, 4251, 2970>>, <<-57, 1406, 3432, 882, 16357>>,
       <<-57, 1404, 15014, 7422, 10513>>, <<-57, 1403, 10271, 3079, 9715>>, <<-57, 1402, 5585, 16243, 9732>>,
       <<-57, 1401, 958, 9796, 6781>>, <<-57, 1399, 12772, 12183, 10135>>, <<-57, 1398, 8260, 2726, 5624>>,
       <<-57, 1397, 3804, 9925, 1088>>, <<-57, 1395, 15789, 13155, 6333>>, <<-57, 1394, 11447, 8203, 13122>>,
       <<-57, 1393, 7161, 7267, 7975>>, <<-57, 1392, 2931, 6186, 1378>>, <<-57, 1390, 15141, 825, 7889>>,
       <<-57, 1389, 11022, 3461, 9883>>, <<-57, 1388, 6958, 10012, 3258>>, <<-57, 1387, 2950, 36, 10406>>,
       <<-57, 1385, 15380, 2271, 11295>>, <<-57, 1384, 11480, 12711, 5658>>, <<-57, 1383, 7635, 10990, 9682>>,
       <<-57, 1382, 3844, 9537, 3569>>, <<-57, 1381, 107, 4419, 10211>>, <<-57, 1379, 12807, 8114, 10051>>,
       <<-57, 1378, 9177, 355, 3431>>, <<-57, 1377, 5599, 10050, 7435>>, <<-57, 1376, 2075, 597, 3618>>,
       <<-57, 1374, 14987, 952, 441>>, <<-57, 1373, 11567, 7326, 13825>>, <<-57, 1372, 8199, 15956, 14963>>,
       <<-57, 1371, 4884, 6716, 9234>>, <<-57, 1370, 1620, 8655, 462>>, <<-57, 1368, 14792, 1692, 4342>>,
       <<-57, 1367, 11630, 14922, 12763>>, <<-57, 1366, 8520, 11927, 7291>>, <<-57, 1365, 5461, 5461, 5461>>,
       <<-57, 1364, 2452, 8301, 8788>>, <<-57, 1362, 15878, 478, 16336>>, <<-57, 1361, 12969, 11198, 5556>>,
       <<-57, 1360, 10111, 4149, 11446>>, <<-57, 1359, 7302, 8580, 9132>>, <<-57, 1358, 4543, 4607, 9468>>,
       <<-57, 1357, 1833, 5136, 7202>>, <<-57, 1355, 15556, 6709, 11092>>, <<-57, 1354, 12944, 5890, 8507>>,
       <<-57, 1353, 10380, 15646, 11976>>, <<-57, 1352, 7865, 16198, 7451>>, <<-57, 1351, 5399, 4170, 910>>,
       <<-57, 1350, 2980, 8973, 15817>>, <<-57, 1349, 609, 10890, 8700>>, <<-57, 1347, 14670, 6603, 14116>>,
       <<-57, 1346, 12394, 9201, 11120>>, <<-57, 1345, 10165, 15407, 2745>>, <<-57, 1344, 7984, 5578, 13586>>,
       <<-57, 1343, 5849, 9246, 5481>>, <<-57, 1342, 3761, 6806, 6218>>, <<-57, 1341, 1719, 11442, 8874>>,
       <<-57, 1339, 16108, 3589, 2257>>, <<-57, 1338, 14158, 12851, 1366>>, <<-57, 1337, 12255, 3315, 12338>>,
       <<-57, 1336, 10397, 4624, 13794>>, <<-57, 1335, 8584, 13670, 3754>>, <<-57, 1334, 6817, 10977, 13789>>,
       <<-57, 1333, 5095, 9859, 8518>>, <<-57, 1332, 3418, 7260, 14494>>, <<-57, 1331, 1786, 145, 3352>>,
       <<-57, 1330, 198, 1877, 4353>>, <<-57, 1328, 15038, 9455, 3956>>, <<-57, 1327, 13539, 3510, 9245>>,
       <<-57, 1326, 12083, 13843, 13078>>, <<-57, 1325, 10672, 4736, 8400>>, <<-57, 1324, 9304, 6023, 2579>>,
       <<-57, 1323, 7979, 14786, 15373>>, <<-57, 1322, 6698, 11743, 11385>>, <<-57, 1321, 5460, 10393, 12752>>,
       <<-57, 1320, 4265, 7869, 15250>>, <<-57, 1319, 3113, 1321, 2718>>, <<-57, 1318, 2003, 4296, 10653>>,
       <<-57, 1317, 935, 13977, 9595>>, <<-57, 1315, 16294, 11177, 1526>>, <<-57, 1314, 15311, 9492, 1594>>,
       <<-57, 1313, 14370, 6151, 3471>>, <<-57, 1312, 13470, 14782, 10263>>, <<-57, 1311, 12612, 16261, 16287>>,
       <<-57, 1310, 11796, 7864, 5243>>, <<-57, 1309, 11021, 3263, 13943>>, <<-57, 1308, 10286, 16149, 15832>>,
       <<-57, 1307, 9593, 11075, 1125>>, <<-57, 1306, 8941, 1758, 7820>>, <<-57, 1305, 8329, 1934, 5260>>,
       <<-57, 1304, 7757, 8967, 7089>>, <<-57, 1303, 7226, 3853, 4003>>, <<-57, 1302, 6735, 369, 11198>>,
       <<-57, 1301, 6283, 12309, 1150>>, <<-57, 1300, 5872, 4326, 246>>, <<-57, 1299, 5500, 6625, 5208>>,
       <<-57, 1298, 5168, 273, 14215>>, <<-57, 1297, 4874, 15504, 8893>>, <<-57, 1296, 4621, 644, 1853>>,
       <<-57, 1295, 4406, 2337, 2319>>, <<-57, 1294, 4230, 1705, 14543>>, <<-57, 1293, 4092, 12654, 3462>>,
       <<-57, 1292, 3993, 16331, 7829>>, <<-57, 1291, 3933, 10284, 7590>>, <<-57, 1290, 3911, 8457, 4274>>,
       <<-57, 1289, 3927, 8423, 3087>>, <<-57, 1288, 3981, 7768, 11403>>, <<-57, 1287, 4073, 4093, 4505>>,
       <<-57, 1286, 4202, 11393, 6020>>, <<-57, 1285, 4369, 10910, 4528>>, <<-57, 1284, 4574, 282, 1262>>,
       <<-57, 1283, 4815, 9927, 8659>>, <<-57, 1282, 5094, 4741, 16160>>, <<-57, 1281, 5409, 15169, 5177>>,
       <<-57, 1280, 5762, 6129, 13212>>, <<-57, 1279, 6151, 8092, 1399>>, <<-57, 1278, 6577, 2385, 565>>,
       <<-57, 1277, 7039, 3117, 11560>>, <<-57, 1276, 7537, 8027, 3889>>, <<-57, 1275, 8071, 14862, 12671>>,
       <<-57, 1274, 8642, 5001, 6221>>, <<-57, 1273, 9248, 8983, 15800>>, <<-57, 1272, 9890, 8211, 3221>>,
       <<-57, 1271, 10568, 479, 7000>>, <<-57, 1270, 11280, 16364, 9991>>, <<-57, 1269, 12029, 4534, 3632>>,
       <<-57, 1268, 12812, 11971, 3060>>, <<-57, 1267, 13631, 3749, 13074>>, <<-57, 1266, 14484, 10491, 10503>>,
       <<-57, 1265, 15372, 13677, 8493>>, <<-57, 1264, 16295, 11183, 6128>>, <<-57, 1264, 869, 896, 3587>>,
       <<-57, 1263, 1860, 13482, 932>>, <<-57, 1262, 2886, 14081, 13291>>, <<-57, 1261, 3947, 615, 4126>>,
       <<-57, 1260, 5041, 3780, 15124>>, <<-57, 1259, 6169, 5136, 1180>>, <<-57, 1258, 7331, 2632, 9462>>,
       <<-57, 1257, 8526, 10616, 14412>>, <<-57, 1256, 9755, 10677, 14903>>, <<-57, 1255, 11018, 799, 340>>,
       <<-57, 1254, 12313, 11741, 15065>>, <<-57, 1253, 13642, 8742, 9786>>, <<-57, 1252, 15004, 6199, 4303>>,
       <<-57, 1252, 15, 2136, 4494>>, <<-57, 1251, 1442, 10972, 1218>>, <<-57, 1250, 2902, 14367, 2006>>,
       <<-57, 1249, 4395, 10375, 13598>>, <<-57, 1248, 5920, 13446, 8114>>, <<-57, 1247, 7478, 5269, 3913>>,
       <<-57, 1246, 9068, 311, 15397>>, <<-57, 1245, 10689, 13052, 2816>>, <<-57, 1244, 12343, 8825, 2308>>,
       <<-57, 1243, 14029, 2127, 10190>>, <<-57, 1242, 15746, 7465, 14706>>, <<-57, 1242, 1111, 6587, 11410>>,
       <<-57, 1241, 2891, 14018, 2161>>, <<-57, 1240, 4703, 11523, 10515>>, <<-57, 1239, 6546, 13647, 15211>>,
       <<-57, 1238, 8421, 2175, 14725>>, <<-57, 1237, 10326, 8053, 9920>>, <<-57, 1236, 12262, 13084, 3085>>,
       <<-57, 1235, 14229, 15463, 13364>>, <<-57, 1234, 16227, 13397, 10278>>, <<-57, 1234, 1872, 5099, 11086>>,
       <<-57, 1233, 3931, 5176, 14321>>, <<-57, 1232, 6020, 11860, 15249>>, <<-57, 1231, 8140, 7008, 4949>>,
       <<-57, 1230, 10290, 5252, 2180>>, <<-57, 1229, 12470, 4850, 3315>>, <<-57, 1228, 14680, 4068, 14224>>,
       <<-57, 1228, 536, 1183, 224>>, <<-57, 1227, 2805, 10859, 16277>>, <<-57, 1226, 5104, 15007, 9503>>,
       <<-57, 1225, 7433, 11925, 14918>>, <<-57, 1224, 9791, 16307, 7121>>, <<-57, 1223, 12179, 10084, 14123>>,
       <<-57, 1222, 14596, 7967, 1813>>, <<-57, 1222, 658, 8287, 4188>>, <<-57, 1221, 3133, 9386, 7825>>,
       <<-57, 1220, 5637, 9614, 210>>, <<-57, 1219, 8170, 7327, 1681>>, <<-57, 1218, 10732, 890, 15457>>,
       <<-57, 1217, 13322, 5062, 10447>>, <<-57, 1216, 15941, 1839, 2362>>, <<-57, 1216, 2204, 5993, 3769>>,
       <<-57, 1215, 4879, 15921, 6912>>, <<-57, 1214, 7583, 13643, 15696>>, <<-57, 1213, 10315, 13956, 12136>>,
       <<-57, 1212, 13075, 15279, 4738>>, <<-57, 1211, 15863, 16038, 11342>>, <<-57, 1211, 2295, 14669, 9214>>,
       <<-57, 1210, 5139, 9613, 16202>>, <<-57, 1209, 8010, 15705, 8068>>, <<-57, 1208, 10909, 15016, 16049>>,
       <<-57, 1207, 13836, 6012, 11422>>, <<-57, 1207, 406, 3548, 3081>>, <<-57, 1206, 3387, 6102, 4033>>,
       <<-57, 1205, 6395, 12160, 14297>>, <<-57, 1204, 9431, 3833, 3796>>, <<-57, 1203, 12493, 12387, 9951>>,
       <<-57, 1202, 15583, 3563, 5901>>, <<-57, 1202, 2315, 8642, 14488>>, <<-57, 1201, 5458, 9763, 9256>>,
       <<-57, 1200, 8628, 5453, 12062>>, <<-57, 1199, 11824, 10632, 10471>>, <<-57, 1198, 15047, 7458, 6226>>,
       <<-57, 1198, 1912, 10863, 14568>>, <<-57, 1197, 5188, 3020, 14415>>, <<-57, 1196, 8489, 15259, 13229>>,
       <<-57, 1195, 11817, 13381, 13590>>, <<-57, 1194, 15171, 12346, 12532>>, <<-57, 1194, 2167, 10737, 897>>,
       <<-57, 1193, 5573, 7141, 11834>>, <<-57, 1192, 9005, 156, 5473>>, <<-57, 1191, 12462, 4766, 15739>>,
       <<-57, 1190, 15945, 3198, 2263>>, <<-57, 1190, 3069, 10448, 13594>>, <<-57, 1189, 6603, 8756, 6350>>,
       <<-57, 1188, 10162, 13132, 8437>>, <<-57, 1187, 13747, 5827, 3748>>, <<-57, 1187, 973, 1864, 13468>>,
       <<-57, 1186, 4607, 16275, 13552>>, <<-57, 1185, 8267, 14944, 16038>>, <<-57, 1184, 11952, 12915, 2918>>,
       <<-57, 1183, 15662, 8851, 7458>>, <<-57, 1183, 3013, 1424, 15313>>, <<-57, 1182, 6772, 5696, 13084>>,
       <<-57, 1181, 10556, 3966, 4131>>, <<-57, 1180, 14364, 11306, 7987>>, <<-57, 1180, 1813, 10028, 10639>>,
       <<-57, 1179, 5670, 15217, 13111>>, <<-57, 1178, 9552, 9196, 14513>>, <<-57, 1177, 13458, 7062, 11482>>,
       <<-57, 1177, 1004, 7533, 14009>>, <<-57, 1176, 4958, 9334, 12117>>, <<-57, 1175, 8936, 11195, 8083>>,
       <<-57, 1174, 12938, 11851, 15892>>, <<-57, 1174, 580, 10045, 11542>>, <<-57, 1173, 4630, 4523, 14431>>,
       <<-57, 1172, 8703, 10423, 4899>>, <<-57, 1171, 12800, 10118, 5620>>, <<-57, 1171, 537, 2372, 15542>>,
       <<-57, 1170, 4681, 2340, 9362>>, <<-57, 1169, 8848, 8796, 2546>>, <<-57, 1168, 13039, 4136, 1658>>,
       <<-57, 1168, 869, 3530, 3853>>, <<-57, 1167, 5106, 5769, 12752>>, <<-57, 1166, 9366, 9651, 5167>>,
       <<-57, 1165, 13649, 13976, 12524>>, <<-57, 1165, 1572, 1169, 5677>>, <<-57, 1164, 5901, 2809, 9098>>,
       <<-57, 1163, 10253, 1331, 2090>>, <<-57, 1162, 14627, 11941, 213>>, <<-57, 1162, 2641, 699, 5651>>,
       <<-57, 1161, 7060, 15591, 6736>>, <<-57, 1160, 11503, 6303, 10230>>, <<-57, 1159, 15968, 4447, 8092>>,
       <<-57, 1159, 4071, 8871, 9770>>, <<-57, 1158, 8581, 2045, 8970>>, <<-57, 1157, 13112, 15595, 15956>>,
       <<-57, 1157, 1282, 15618, 7939>>, <<-57, 1156, 5859, 981, 10541>>, <<-57, 1155, 10457, 3326, 15418>>,
       <<-57, 1154, 15077, 5148, 12577>>, <<-57, 1154, 3335, 5330, 6314>>, <<-57, 1153, 7999, 2759, 14766>>,
       <<-57, 1152, 12684, 12714, 3933>>, <<-57, 1152, 1008, 1323, 1930>>, <<-57, 1151, 5737, 257, 241>>,
       <<-57, 1150, 10487, 8423, 2444>>, <<-57, 1149, 15259, 8349, 7393>>, <<-57, 1149, 3668, 15336, 8790>>,
       <<-57, 1148, 8483, 11921, 11149>>, <<-57, 1147, 13319, 13414, 12983>>, <<-57, 1147, 1793, 2362, 6393>>,
       <<-57, 1146, 6671, 10467, 9415>>, <<-57, 1145, 11571, 3902, 70>>, <<-57, 1145, 107, 14377, 14264>>,
       <<-57, 1144, 5049, 8075, 14300>>, <<-57, 1143, 10012, 333, 3168>>, <<-57, 1142, 14995, 6491, 7754>>,
       <<-57, 1142, 3615, 9128, 12908>>, <<-57, 1141, 8640, 7211, 10195>>, <<-57, 1140, 13685, 16094, 13889>>,
       <<-57, 1140, 2368, 1985, 11428>>, <<-57, 1139, 7454, 13015, 12176>>, <<-57, 1138, 12561, 15400, 14268>>,
       <<-57, 1138, 1305, 8129, 4229>>, <<-57, 1137, 6453, 6577, 5742>>, <<-57, 1136, 11621, 9741, 13736>>,
       <<-57, 1136, 426, 239, 10390>>, <<-57, 1135, 5634, 9843, 13913>>, <<-57, 1134, 10863, 4795, 12639>>,
       <<-57, 1133, 16112, 492, 13807>>, <<-57, 1133, 4996, 12336, 10426>>, <<-57, 1132, 10285, 6580, 13683>>,
       <<-57, 1131, 15593, 15019, 3425>>, <<-57, 1131, 4538, 3913, 9722>>, <<-57, 1130, 9886, 5065, 14207>>,
       <<-57, 1129, 15254, 1129, 15254>>, <<-57, 1129, 4257, 7531, 11245>>, <<-57, 1128, 9664, 6933, 219>>,
       <<-57, 1127, 15090, 14767, 12291>>, <<-57, 1127, 4152, 13705, 11004>>, <<-57, 1126, 9618, 2804, 7674>>,
       <<-57, 1125, 15102, 13893, 11897>>, <<-57, 1125, 4222, 13270, 14825>>, <<-57, 1124, 9746, 5, 5213>>,
       <<-57, 1123, 15288, 5938, 1857>>, <<-57, 1123, 4465, 13762, 4103>>, <<-57, 1122, 10046, 6174, 7908>>,
       <<-57, 1121, 15645, 15027, 5506>>, <<-57, 1121, 4880, 6641, 1471>>, <<-57, 1120, 10517, 12875, 12390>>,
       <<-57, 1119, 16174, 59, 1006>>, <<-57, 1119, 5465, 58, 6971>>, <<-57, 1118, 11158, 11976, 15457>>,
       <<-57, 1118, 487, 2153, 5993>>, <<-57, 1117, 6218, 2466, 1299>>, <<-57, 1116, 11967, 12029, 1446>>,
       <<-57, 1116, 1351, 13575, 16306>>, <<-57, 1115, 7138, 6227, 16102>>, <<-57, 1114, 12943, 5493, 13012>>,
       <<-57, 1114, 2382, 10501, 11723>>, <<-57, 1113, 8224, 3999, 9123>>, <<-57, 1112, 14084, 1506, 10387>>,
       <<-57, 1112, 3578, 2161, 12297>>, <<-57, 1111, 9474, 5107, 2943>>, <<-57, 1110, 15388, 9488, 10583>>,
       <<-57, 1110, 4936, 14455, 5046>>, <<-57, 1109, 10887, 2775, 12130>>, <<-57, 1109, 471, 6373, 15007>>,
       <<-57, 1108, 6457, 8025, 3093>>, <<-57, 1107, 12461, 6892, 4527>>, <<-57, 1107, 2099, 2141, 3969>>,
       <<-57, 1106, 8138, 9325, 7856>>, <<-57, 1105, 14195, 11233, 11352>>, <<-57, 1105, 3886, 7041, 14455>>,
       <<-57, 1104, 9978, 12313, 5339>>, <<-57, 1103, 16088, 9846, 9227>>, <<-57, 1103, 5831, 15211, 6202>>,
       <<-57, 1102, 11976, 11212, 12857>>, <<-57, 1102, 1754, 13427, 101>>, <<-57, 1101, 7934, 4665, 7583>>,
       <<-57, 1100, 14131, 510, 12354>>, <<-57, 1100, 3961, 164, 10519>>, <<-57, 1099, 10192, 2832, 595>>,
       <<-57, 1099, 56, 7720, 16017>>, <<-57, 1098, 6321, 14042, 10186>>, <<-57, 1097, 12604, 4627, 3675>>,
       <<-57, 1097, 2519, 11460, 2043>>, <<-57, 1096, 8836, 993, 11976>>, <<-57, 1095, 15169, 5219, 8253>>,
       <<-57, 1095, 5135, 6979, 15426>>, <<-57, 1094, 11502, 5504, 9258>>, <<-57, 1094, 1502, 25, 14783>>,
       <<-57, 1093, 7902, 6163, 7752>>, <<-57, 1092, 14319, 6771, 12695>>, <<-57, 1092, 4369, 1092, 4369>>,
       <<-57, 1091, 10819, 4753, 5824>>, <<-57, 1091, 902, 618, 6236>>, <<-57, 1090, 7385, 4321, 9828>>,
       <<-57, 1089, 13884, 15116, 2854>>, <<-57, 1089, 4016, 15874, 2523>>, <<-57, 1088, 10549, 5854, 7607>>,
       <<-57, 1088, 714, 702, 14593>>, <<-57, 1087, 7278, 16068, 1065>>, <<-57, 1086, 13860, 2065, 7395>>,
       <<-57, 1086, 4073, 7117, 5441>>, <<-57, 1085, 10686, 14112, 13006>>, <<-57, 1085, 932, 5943, 11693>>,
       <<-57, 1084, 7577, 14656, 12213>>, <<-57, 1083, 14239, 6765, 5011>>, <<-57, 1083, 4532, 14321, 9194>>,
       <<-57, 1082, 11226, 3844, 6776>>, <<-57, 1082, 1551, 7391, 7991>>, <<-57, 1081, 8276, 7871, 1923>>,
       <<-57, 1080, 15017, 4578, 5442>>, <<-57, 1080, 5389, 13194, 13836>>, <<-57, 1079, 12162, 253, 594>>,
       <<-57, 1079, 2565, 14207, 15497>>, <<-57, 1078, 9369, 5213, 4184>>, <<-57, 1077, 16188, 5345, 4547>>,
       <<-57, 1077, 6638, 13914, 15450>>, <<-57, 1076, 13488, 13851, 12902>>, <<-57, 1076, 3970, 4471, 15392>>,
       <<-57, 1075, 10851, 1478, 1756>>, <<-57, 1075, 1363, 4191, 9280>>, <<-57, 1074, 8274, 11936, 2423>>,
       <<-57, 1073, 15201, 7654, 3688>>, <<-57, 1073, 5759, 7058, 11500>>, <<-57, 1072, 12716, 9481, 4>>,
       <<-57, 1072, 3304, 14255, 791>>, <<-57, 1071, 10292, 4333, 4392>>, <<-57, 1071, 910, 11822, 9234>>,
       <<-57, 1070, 7928, 3296, 5064>>, <<-57, 1069, 14960, 10866, 5518>>, <<-57, 1069, 5624, 1110, 15163>>,
       <<-57, 1068, 12686, 6146, 12922>>, <<-57, 1068, 3379, 8941, 1031>>, <<-57, 1067, 10471, 8847, 4854>>,
       <<-57, 1067, 1194, 5221, 7155>>, <<-57, 1066, 8315, 13805, 13448>>, <<-57, 1065, 15452, 1193, 2660>>,
       <<-57, 1065, 6218, 15898, 8862>>, <<-57, 1064, 13384, 8135, 6399>>, <<-57, 1064, 4180, 10039, 8012>>,
       <<-57, 1063, 11375, 4596, 15502>>, <<-57, 1063, 2200, 7564, 3165>>, <<-57, 1062, 9424, 1931, 15916>>,
       <<-57, 1062, 278, 3461, 5273>>, <<-57, 1061, 7530, 11531, 9398>>, <<-57, 1060, 14797, 9140, 5468>>,
       <<-57, 1060, 5694, 12055, 7801>>, <<-57, 1059, 12990, 3279, 2146>>, <<-57, 1059, 3915, 14967, 11047>>,
       <<-57, 1058, 11239, 13743, 11746>>, <<-57, 1058, 2193, 15384, 1550>>, <<-57, 1057, 9546, 2899, 14043>>,
       <<-57, 1057, 528, 8456, 4228>>, <<-57, 1056, 7908, 15068, 12201>>, <<-57, 1055, 15303, 5754, 15522>>,
       <<-57, 1055, 6327, 12686, 10972>>, <<-57, 1054, 13750, 2501, 14385>>, <<-57, 1054, 4802, 7376, 11331>>,
       <<-57, 1053, 12252, 10337, 6104>>, <<-57, 1053, 3332, 10796, 5176>>, <<-57, 1052, 10810, 8168, 648>>,
       <<-57, 1052, 1918, 1869, 2861>>, <<-57, 1051, 9423, 7702, 7461>>, <<-57, 1051, 558, 8704, 11630>>,
       <<-57, 1050, 8091, 4298, 13924>>, <<-57, 1049, 15637, 10293, 14113>>, <<-57, 1049, 6813, 9732, 13030>>,
       <<-57, 1048, 14387, 2044, 12410>>, <<-57, 1048, 5590, 3044, 14738>>, <<-57, 1047, 13190, 12166, 6707>>,
       <<-57, 1047, 4420, 12460, 8223>>, <<-57, 1046, 12048, 3364, 6707>>, <<-57, 1046, 3305, 701, 6105>>,
       <<-57, 1045, 10959, 3912, 10348>>, <<-57, 1045, 2242, 12441, 6819>>, <<-57, 1044, 9923, 9348, 15354>>,
       <<-57, 1044, 1233, 10466, 6177>>, <<-57, 1043, 8940, 15242, 14440>>, <<-57, 1043, 277, 6745, 9001>>,
       <<-57, 1042, 8011, 811, 6971>>, <<-57, 1041, 15757, 13279, 8030>>, <<-57, 1041, 7133, 10838, 10664>>,
       <<-57, 1040, 14906, 9331, 12030>>, <<-57, 1040, 6308, 8219, 7805>>, <<-57, 1039, 14107, 6964, 8431>>,
       <<-57, 1039, 5535, 5031, 6209>>, <<-57, 1038, 13360, 1886, 7922>>, <<-57, 1038, 4813, 13382, 1929>>,
       <<-57, 1037, 12664, 6220, 7181>>, <<-57, 1037, 4143, 12641, 7543>>, <<-57, 1036, 12019, 15735, 812>>,
       <<-57, 1036, 3524, 14976, 14962>>, <<-57, 1035, 11426, 9844, 9707>>, <<-57, 1035, 2956, 16201, 7434>>,
       <<-57, 1034, 10884, 760, 11155>>, <<-57, 1034, 2439, 12157, 4366>>, <<-57, 1033, 10392, 724, 73>>,
       <<-57, 1033, 1972, 15099, 7888>>, <<-57, 1032, 9950, 5620, 1131>>, <<-57, 1032, 1556, 4543, 15002>>,
       <<-57, 1031, 9558, 11362, 15382>>, <<-57, 1031, 1189, 9186, 13389>>, <<-57, 1030, 9216, 13894, 16100>>,
       <<-57, 1030, 872, 8600, 10036>>, <<-57, 1029, 8924, 9186, 10191>>, <<-57, 1029, 604, 15153, 10751>>,
       <<-57, 1028, 8681, 9620, 1351>>, <<-57, 1028, 386, 8473, 16105>>, <<-57, 1027, 8487, 11221, 2409>>,
       <<-57, 1027, 217, 985, 1040>>, <<-57, 1026, 8342, 10042, 14962>>, <<-57, 1026, 96, 5137, 9204>>,
       <<-57, 1025, 8246, 2165, 9040>>, <<-57, 1025, 24, 641, 1568>>, <<-57, 1024, 8198, 80, 1121>>,
       <<-57, 1024, 0, 0, 0>>, <<-58, 2047, 11, 16224, 2238>>, <<-58, 2046, 47, 15106, 3009>>,
       <<-58, 2045, 107, 12075, 739>>, <<-58, 2044, 191, 6178, 14375>>, <<-58, 2043, 298, 12853, 1235>>,
       <<-58, 2042, 429, 14768, 4229>>, <<-58, 2041, 584, 10982, 4173>>, <<-58, 2040, 763, 556, 1483>>,
       <<-58, 2039, 964, 15321, 15940>>, <<-58, 2038, 1190, 5195, 4552>>, <<-58, 2037, 1439, 2014, 8774>>,
       <<-58, 2036, 1711, 4853, 6838>>, <<-58, 2035, 2006, 12788, 11825>>, <<-58, 2034, 2325, 8516, 5911>>,
       <<-58, 2033, 2667, 7503, 5682>>, <<-58, 2032, 3032, 8835, 12761>>, <<-58, 2031, 3420, 11602, 13591>>,
       <<-58, 2030, 3831, 14896, 11981>>, <<-58, 2029, 4266, 1428, 12513>>, <<-58, 2028, 4723, 3065, 3936>>,
       <<-58, 2027, 5203, 2523, 8107>>, <<-58, 2026, 5705, 15291, 14243>>, <<-58, 2025, 6231, 7709, 11473>>,
       <<-58, 2024, 6779, 11655, 5018>>, <<-58, 2023, 7350, 9857, 15973>>, <<-58, 2022, 7944, 1433, 15569>>,
       <<-58, 2021, 8560, 1886, 6885>>, <<-58, 2020, 9198, 10337, 8254>>, <<-58, 2019, 9859, 9528, 3907>>,
       <<-58, 2018, 10542, 14970, 9308>>, <<-58, 2017, 11248, 9411, 5411>>, <<-58, 2016, 11976, 8368, 3995>>,
       <<-58, 2015, 12726, 10977, 14696>>, <<-58, 2014, 13498, 16379, 12038>>, <<-58, 2013, 14293, 7332, 772>>,
       <<-58, 2012, 15109, 15747, 15673>>, <<-58, 2011, 15948, 8007, 6662>>, <<-58, 2011, 424, 16029, 2444>>,
       <<-58, 2010, 1307, 6198, 12015>>, <<-58, 2009, 2211, 10440, 8077>>, <<-58, 2008, 3137, 11529, 8772>>,
       <<-58, 2007, 4085, 8627, 11951>>, <<-58, 2006, 5055, 899, 11366>>, <<-58, 2005, 6046, 3896, 12868>>,
       <<-58, 2004, 7059, 405, 1444>>, <<-58, 2003, 8093, 5981, 6572>>, <<-58, 2002, 9149, 3417, 3725>>,
       <<-58, 2001, 10226, 8274, 12492>>, <<-58, 2000, 11325, 3350, 14470>>, <<-58, 1999, 12445, 4213, 2236>>,
       <<-58, 1998, 13586, 10047, 11926>>, <<-58, 1997, 14749, 3659, 8372>>, <<-58, 1996, 15933, 623, 15985>>,
       <<-58, 1996, 754, 135, 3895>>, <<-58, 1995, 1980, 1390, 450>>, <<-58, 1994, 3227, 3587, 11126>>,
       <<-58, 1993, 4495, 5930, 1961>>, <<-58, 1992, 5784, 7621, 14068>>, <<-58, 1991, 7094, 7869, 16001>>,
       <<-58, 1990, 8425, 5884, 1885>>, <<-58, 1989, 9777, 876, 7628>>, <<-58, 1988, 11149, 8445, 12441>>,
       <<-58, 1987, 12542, 11425, 4204>>, <<-58, 1986, 13956, 9034, 12060>>, <<-58, 1985, 15391, 496, 7944>>,
       <<-58, 1985, 462, 1419, 4713>>, <<-58, 1984, 1937, 11030, 6828>>, <<-58, 1983, 3433, 12175, 10186>>,
       <<-58, 1982, 4950, 4087, 1953>>, <<-58, 1981, 6487, 2383, 9548>>, <<-58, 1980, 8044, 6302, 2173>>,
       <<-58, 1979, 9621, 15082, 5341>>, <<-58, 1978, 11219, 11582, 2402>>, <<-58, 1977, 12837, 11429, 16305>>,
       <<-58, 1976, 14475, 13872, 11130>>, <<-58, 1975, 16134, 1775, 6614>>, <<-58, 1975, 1428, 7157, 12454>>,
       <<-58, 1974, 3126, 12889, 11766>>, <<-58, 1973, 4845, 1843, 10075>>, <<-58, 1972, 6583, 6046, 2391>>,
       <<-58, 1971, 8341, 8374, 5818>>, <<-58, 1970, 10119, 8091, 10246>>, <<-58, 1969, 11917, 4463, 10964>>,
       <<-58, 1968, 13734, 13142, 8504>>, <<-58, 1967, 15572, 630, 8487>>, <<-58, 1967, 1044, 15352, 5086>>,
       <<-58, 1966, 2921, 7430, 13640>>, <<-58, 1965, 4817, 8911, 4966>>, <<-58, 1964, 6733, 2689, 3515>>,
       <<-58, 1963, 8668, 4430, 5296>>, <<-58, 1962, 10622, 13418, 10501>>, <<-58, 1961, 12596, 12556, 6964>>,
       <<-58, 1960, 14590, 1132, 2787>>, <<-58, 1960, 218, 11204, 9808>>, <<-58, 1959, 2250, 9298, 10682>>,
       <<-58, 1958, 4301, 11093, 7890>>, <<-58, 1957, 6371, 15886, 7211>>, <<-58, 1956, 8461, 6593, 1189>>,
       <<-58, 1955, 10569, 15283, 1760>>, <<-58, 1954, 12697, 8492, 7342>>, <<-58, 1953, 14844, 1911, 2689>>,
       <<-58, 1953, 625, 11231, 7903>>, <<-58, 1952, 2810, 2995, 12756>>, <<-58, 1951, 5013, 9284, 9320>>,
       <<-58, 1950, 7235, 13028, 8207>>, <<-58, 1949, 9476, 13544, 5666>>, <<-58, 1948, 11736, 10150, 16210>>,
       <<-58, 1947, 14015, 2169, 6943>>, <<-58, 1946, 16312, 5306, 12112>>, <<-58, 1946, 2244, 2504, 1895>>,
       <<-58, 1945, 4578, 9472, 13341>>, <<-58, 1944, 6931, 9158, 2780>>, <<-58, 1943, 9303, 891, 9521>>,
       <<-58, 1942, 11693, 390, 8272>>, <<-58, 1941, 14101, 6990, 7303>>, <<-58, 1941, 144, 3644, 15551>>,
       <<-58, 1940, 2589, 6077, 9717>>, <<-58, 1939, 5052, 13629, 16053>>, <<-58, 1938, 7534, 9261, 11934>>,
       <<-58, 1937, 10034, 8702, 7640>>, <<-58, 1936, 12552, 11299, 13466>>, <<-58, 1935, 15089, 19, 6820>>,
       <<-58, 1935, 1259, 6980, 14015>>, <<-58, 1934, 3831, 15153, 11842>>, <<-58, 1933, 6422, 7509, 9359>>,
       <<-58, 1932, 9030, 16173, 14998>>, <<-58, 1931, 11657, 7738, 3671>>, <<-58, 1930, 14301, 14331, 14950>>,
       <<-58, 1930, 580, 2550, 5484>>, <<-58, 1929, 3260, 4526, 12719>>, <<-58, 1928, 5958, 3244, 7314>>,
       <<-58, 1927, 8673, 14456, 7710>>, <<-58, 1926, 11407, 4765, 14471>>, <<-58, 1925, 14158, 6313, 10162>>,
       <<-58, 1925, 543, 2090, 8379>>, <<-58, 1924, 3329, 7857, 4478>>, <<-58, 1923, 6133, 6608, 8224>>,
       <<-58, 1922, 8954, 14108, 10900>>, <<-58, 1921, 11793, 13356, 1577>>, <<-58, 1920, 14650, 3734, 16145>>,
       <<-58, 1920, 1140, 1015, 6125>>, <<-58, 1919, 4031, 4585, 2388>>, <<-58, 1918, 6939, 13834, 358>>,
       <<-58, 1917, 9865, 11769, 9040>>, <<-58, 1916, 12808, 14169, 1757>>, <<-58, 1915, 15769, 4043, 14340>>,
       <<-58, 1915, 2362, 13558, 13939>>, <<-58, 1914, 5357, 9344, 13598>>, <<-58, 1913, 8369, 7186, 6607>>,
       <<-58, 1912, 11398, 6485, 15539>>, <<-58, 1911, 14444, 6647, 10221>>, <<-58, 1911, 1123, 7077, 5922>>,
       <<-58, 1910, 4203, 7182, 14096>>, <<-58, 1909, 7300, 6373, 9497>>, <<-58, 1908, 10414, 4060, 11992>>,
       <<-58, 1907, 13544, 16041, 4532>>, <<-58, 1907, 308, 8961, 14963>>, <<-58, 1906, 3472, 15007, 1226>>,
       <<-58, 1905, 6654, 826, 15092>>, <<-58, 1904, 9851, 14993, 5449>>, <<-58, 1903, 13066, 7775, 14795>>,
       <<-58, 1902, 16297, 11365, 15300>>, <<-58, 1902, 3161, 8804, 6999>>, <<-58, 1901, 6425, 15902, 1303>>,
       <<-58, 1900, 9706, 15703, 4512>>, <<-58, 1899, 13004, 7638, 1322>>, <<-58, 1898, 16318, 7522, 3880>>,
       <<-58, 1898, 3264, 14789, 2521>>, <<-58, 1897, 6611, 12489, 14821>>, <<-58, 1896, 9975, 61, 3573>>,
       <<-58, 1895, 13354, 9709, 7758>>, <<-58, 1895, 366, 8106, 11370>>, <<-58, 1894, 3778, 11078, 8851>>,
       <<-58, 1893, 7207, 1684, 4990>>, <<-58, 1892, 10651, 12136, 14823>>, <<-58, 1891, 14112, 9114, 14381>>,
       <<-58, 1891, 1205, 8450, 6128>>, <<-58, 1890, 4698, 9593, 2475>>, <<-58, 1889, 8207, 11994, 9299>>,
       <<-58, 1888, 11732, 15107, 9463>>, <<-58, 1887, 15274, 2002, 11866>>, <<-58, 1887, 2447, 4904, 2198>>,
       <<-58, 1886, 6020, 6885, 8378>>, <<-58, 1885, 9609, 7406, 2150>>, <<-58, 1884, 13214, 5926, 13682>>,
       <<-58, 1884, 451, 1910, 394>>, <<-58, 1883, 4087, 11203, 10703>>, <<-58, 1882, 7740, 505, 3705>>,
       <<-58, 1881, 11408, 2049, 12923>>, <<-58, 1880, 15091, 15305, 15139>>, <<-58, 1880, 2407, 6975, 12221>>,
       <<-58, 1879, 6122, 9298, 14647>>, <<-58, 1878, 9853, 5364, 8642>>, <<-58, 1877, 13599, 11031, 5243>>,
       <<-58, 1877, 977, 9391, 7435>>, <<-58, 1876, 4754, 16306, 10060>>, <<-58, 1875, 8547, 14871, 16113>>,
       <<-58, 1874, 12356, 4568, 3882>>, <<-58, 1873, 16180, 1261, 8777>>, <<-58, 1873, 3635, 4435, 8556>>,
       <<-58, 1872, 7489, 13575, 5149>>, <<-58, 1871, 11359, 11783, 8195>>, <<-58, 1870, 15244, 14932, 2175>>,
       <<-58, 1870, 2761, 6126, 11870>>, <<-58, 1869, 6677, 1242, 3961>>, <<-58, 1868, 10607, 16155, 1635>>,
       <<-58, 1867, 14554, 1207, 2578>>, <<-58, 1867, 2131, 5045, 11654>>, <<-58, 1866, 6107, 10783, 8052>>,
       <<-58, 1865, 10099, 1534, 10737>>, <<-58, 1864, 14105, 9566, 12830>>, <<-58, 1864, 1743, 1612, 14287>>,
       <<-58, 1863, 5779, 9943, 5435>>, <<-58, 1862, 9831, 1293, 16038>>, <<-58, 1861, 13897, 7938, 523>>,
       <<-58, 1861, 1594, 12998, 1742>>, <<-58, 1860, 5690, 15982, 3428>>, <<-58, 1859, 9802, 15, 12035>>,
       <<-58, 1858, 13927, 13761, 7501>>, <<-58, 1858, 1684, 7579, 8708>>, <<-58, 1857, 5839, 13751, 7856>>,
       <<-58, 1856, 10009, 15408, 3157>>, <<-58, 1855, 14194, 12065, 15135>>, <<-58, 1855, 2010, 3242, 4627>>,
       <<-58, 1854, 6224, 4840, 3771>>, <<-58, 1853, 10452, 16380, 1245>>, <<-58, 1852, 14696, 4615, 7716>>,
       <<-58, 1852, 2570, 1837, 6616>>, <<-58, 1851, 6842, 7570, 3208>>, <<-58, 1850, 11129, 4955, 8133>>,
       <<-58, 1849, 15430, 9904, 4553>>, <<-58, 1849, 3362, 5560, 13619>>, <<-58, 1848, 7692, 7838, 12467>>,
       <<-58, 1847, 12036, 16268, 16065>>, <<-58, 1847, 11, 13999, 11598>>, <<-58, 1846, 4385, 564, 7545>>,
       <<-58, 1845, 8772, 8266, 833>>, <<-58, 1844, 13174, 3872, 9535>>, <<-58, 1844, 1206, 3305, 7249>>,
       <<-58, 1843, 5636, 6103, 4952>>, <<-58, 1842, 10080, 11806, 1769>>, <<-58, 1841, 14539, 3571, 1283>>,
       <<-58, 1841, 2627, 13708, 11462>>, <<-58, 1840, 7114, 8994, 11817>>, <<-58, 1839, 11615, 5358, 2479>>,
       <<-58, 1838, 16130, 2345, 4128>>, <<-58, 1838, 4274, 15887, 8767>>, <<-58, 1837, 8817, 12765, 12419>>,
       <<-58, 1836, 13374, 8913, 15052>>, <<-58, 1836, 1561, 3883, 4127>>, <<-58, 1835, 6145, 13610, 3676>>,
       <<-58, 1834, 10744, 4880, 8693>>, <<-58, 1833, 15356, 10017, 1454>>, <<-58, 1833, 3598, 12192, 588>>,
       <<-58, 1832, 8238, 10962, 11866>>, <<-58, 1831, 12892, 5887, 11737>>, <<-58, 1831, 1175, 12910, 12803>>,
       <<-58, 1830, 5856, 15208, 14589>>, <<-58, 1829, 10551, 12344, 3483>>, <<-58, 1828, 15260, 3880, 1810>>,
       <<-58, 1828, 3598, 5765, 2236>>, <<-58, 1827, 8334, 1181, 461>>, <<-58, 1826, 13083, 6078, 11538>>,
       <<-58, 1826, 1462, 3642, 4272>>, <<-58, 1825, 6238, 9824, 15835>>, <<-58, 1824, 11028, 7813, 4247>>,
       <<-58, 1823, 15831, 13562, 12148>>, <<-58, 1823, 4264, 10262, 2893>>, <<-58, 1822, 9094, 13869, 7937>>,
       <<-58, 1821, 13938, 7575, 12089>>, <<-58, 1821, 2411, 7341, 2589>>, <<-58, 1820, 7281, 12743, 1820>>,
       <<-58, 1819, 12165, 6976, 1700>>, <<-58, 1819, 678, 6003, 12772>>, <<-58, 1818, 5588, 9406, 14988>>,
       <<-58, 1817, 10512, 383, 6793>>, <<-58, 1816, 15448, 11284, 5068>>, <<-58, 1816, 4014, 8925, 12291>>,
       <<-58, 1815, 8977, 9277, 94>>, <<-58, 1814, 13953, 11924, 7502>>, <<-58, 1814, 2559, 71, 9800>>,
       <<-58, 1813, 7561, 6075, 386>>, <<-58, 1812, 12576, 13140, 7098>>, <<-58, 1812, 1221, 4474, 10229>>,
       <<-58, 1811, 6262, 12437, 8002>>, <<-58, 1810, 11317, 3854, 122>>, <<-58, 1810, 0, 11086, 4102>>,
       <<-58, 1809, 5081, 961, 6050>>, <<-58, 1808, 10174, 5843, 9755>>, <<-58, 1807, 15280, 8946, 3867>>,
       <<-58, 1807, 4015, 9867, 10979>>, <<-58, 1806, 9147, 8207, 5654>>, <<-58, 1805, 14292, 3565, 12668>>,
       <<-58, 1805, 3065, 11928, 8643>>, <<-58, 1804, 8236, 130, 3912>>, <<-58, 1803, 13419, 542, 9689>>,
       <<-58, 1803, 2230, 12770, 5244>>, <<-58, 1802, 7439, 3651, 3377>>, <<-58, 1801, 12660, 5560, 1213>>,
       <<-58, 1801, 1510, 1720, 12909>>, <<-58, 1800, 6756, 8126, 4059>>, <<-58, 1799, 12015, 8002, 6325>>,
       <<-58, 1799, 903, 960, 2694>>, <<-58, 1798, 6187, 2995, 9339>>, <<-58, 1797, 11483, 13721, 10025>>,
       <<-58, 1797, 408, 16368, 5207>>, <<-58, 1796, 5730, 10550, 11971>>, <<-58, 1795, 11064, 12268, 14827>>,
       <<-58, 1795, 27, 4755, 14805>>, <<-58, 1794, 5386, 4013, 13016>>, <<-58, 1793, 10757, 9661, 10595>>,
       <<-58, 1792, 16141, 4935, 8647>>, <<-58, 1792, 5153, 5840, 8190>>, <<-58, 1791, 10561, 11998, 10103>>,
       <<-58, 1790, 15982, 6648, 15070>>, <<-58, 1790, 5031, 5799, 7141>>, <<-58, 1789, 10476, 9075, 2830>>,
       <<-58, 1788, 15933, 16102, 1910>>, <<-58, 1788, 5019, 10123, 3742>>, <<-58, 1787, 10501, 7150, 7225>>,
       <<-58, 1786, 15995, 6812, 10736>>, <<-58, 1786, 5117, 8739, 12084>>, <<-58, 1785, 10635, 12562, 8454>>,
       <<-58, 1784, 16166, 1528, 12736>>, <<-58, 1784, 5324, 8039, 4326>>, <<-58, 1783, 10878, 15343, 10989>>,
       <<-58, 1783, 61, 6692, 10506>>, <<-58, 1782, 5639, 14489, 12540>>, <<-58, 1781, 11230, 5603, 9435>>,
       <<-58, 1781, 448, 12439, 8931>>, <<-58, 1780, 6063, 1868, 1343>>, <<-58, 1779, 11689, 6296, 8668>>,
       <<-58, 1779, 943, 8981, 2608>>, <<-58, 1778, 6593, 9563, 2825>>, <<-58, 1777, 12255, 7684, 11358>>,
       <<-58, 1777, 1545, 2988, 12568>>, <<-58, 1776, 7230, 11503, 5862>>, <<-58, 1775, 12928, 105, 5636>>,
       <<-58, 1775, 2253, 1208, 8464>>, <<-58, 1774, 7973, 14459, 9429>>, <<-58, 1773, 13706, 6738, 2076>>,
       <<-58, 1773, 3066, 10460, 11128>>, <<-58, 1772, 8822, 8892, 10522>>, <<-58, 1771, 14590, 1684, 5274>>,
       <<-58, 1771, 3985, 4870, 15056>>, <<-58, 1770, 9776, 1720, 8600>>, <<-58, 1769, 15578, 8270, 1966>>,
       <<-58, 1769, 5008, 7789, 9333>>, <<-58, 1768, 10833, 16317, 10189>>, <<-58, 1768, 287, 741, 14817>>,
       <<-58, 1767, 6135, 9870, 15096>>, <<-58, 1766, 11995, 10594, 839>>, <<-58, 1766, 1483, 2569, 8900>>,
       <<-58, 1765, 7366, 1840, 8433>>, <<-58, 1764, 13260, 8066, 15541>>, <<-58, 1764, 2782, 4525, 11306>>,
       <<-58, 1763, 8699, 7262, 7278>>, <<-58, 1762, 14627, 15939, 12663>>, <<-58, 1762, 4183, 13837, 1511>>,
       <<-58, 1761, 10135, 618, 10969>>, <<-58, 1760, 16097, 8717, 10170>>, <<-58, 1760, 5687, 5031, 14872>>,
       <<-58, 1759, 11672, 5612, 5493>>, <<-58, 1759, 1284, 10126, 8988>>, <<-58, 1758, 7292, 1859, 499>>,
       <<-58, 1757, 13310, 13247, 1615>>, <<-58, 1757, 2956, 11192, 14794>>, <<-58, 1756, 8997, 11751, 6929>>,
       <<-58, 1755, 15049, 14594, 7615>>, <<-58, 1755, 4729, 3010, 10798>>, <<-58, 1754, 10803, 9441, 7496>>,
       <<-58, 1754, 505, 793, 2147>>, <<-58, 1753, 6601, 9508, 12561>>, <<-58, 1752, 12709, 2496, 4341>>,
       <<-58, 1752, 2443, 12200, 5528>>, <<-58, 1751, 8573, 5530, 8259>>, <<-58, 1750, 14713, 14933, 1485>>,
       <<-58, 1750, 4481, 7319, 3701>>, <<-58, 1749, 10643, 15136, 13754>>, <<-58, 1749, 433, 5298, 10793>>,
       <<-58, 1748, 6617, 10254, 3390>>, <<-58, 1747, 12812, 13301, 13103>>, <<-58, 1747, 2634, 14124, 8908>>,
       <<-58, 1746, 8851, 12406, 5456>>, <<-58, 1745, 15079, 7831, 13880>>, <<-58, 1745, 4934, 86, 8989>>,
       <<-58, 1744, 11183, 5240, 11144>>, <<-58, 1744, 1059, 6597, 4301>>, <<-58, 1743, 7330, 3844, 1500>>,
       <<-58, 1742, 13611, 13053, 12064>>, <<-58, 1742, 3520, 1147, 8786>>, <<-58, 1741, 9823, 583, 9809>>,
       <<-58, 1740, 16136, 11052, 13053>>, <<-58, 1740, 6076, 15862, 12556>>, <<-58, 1739, 12411, 14705, 14820>>,
       <<-58, 1739, 2373, 7275, 6003>>, <<-58, 1738, 8729, 9649, 1033>>, <<-58, 1737, 15096, 5137, 10798>>,
       <<-58, 1737, 5089, 9820, 9341>>, <<-58, 1736, 11477, 7009, 15742>>, <<-58, 1736, 1491, 12786, 12155>>,
       <<-58, 1735, 7900, 10464, 9311>>, <<-58, 1734, 14319, 16125, 13709>>, <<-58, 1734, 4365, 13085, 11191>>,
       <<-58, 1733, 10806, 1043, 16060>>, <<-58, 1733, 872, 12469, 5505>>, <<-58, 1732, 7333, 14295, 1482>>,
       <<-58, 1731, 13805, 6223, 5141>>, <<-58, 1731, 3903, 4340, 13171>>, <<-58, 1730, 10395, 8351, 1382>>,
       <<-58, 1730, 514, 1574, 6583>>, <<-58, 1729, 7027, 99, 11862>>, <<-58, 1728, 13550, 3632, 12081>>,
       <<-58, 1728, 3699, 11879, 13840>>, <<-58, 1727, 10243, 8164, 2675>>, <<-58, 1727, 413, 8577, 8553>>,
       <<-58, 1726, 6977, 12828, 7535>>, <<-58, 1725, 13552, 4242, 3659>>, <<-58, 1725, 3752, 15296, 12517>>,
       <<-58, 1724, 10347, 12934, 12072>>, <<-58, 1724, 568, 13251, 8155>>, <<-58, 1723, 7183, 15959, 1661>>,
       <<-58, 1722, 13809, 4386, 4899>>, <<-58, 1722, 4060, 11014, 8785>>, <<-58, 1721, 10706, 2789, 15582>>,
       <<-58, 1721, 977, 12195, 6087>>, <<-58, 1720, 7643, 6178, 5141>>, <<-58, 1719, 14319, 838, 16053>>,
       <<-58, 1719, 4620, 12278, 4180>>, <<-58, 1718, 11316, 7445, 11587>>, <<-58, 1718, 1638, 2443, 9547>>,
       <<-58, 1717, 8353, 13374, 13204>>, <<-58, 1716, 15079, 7190, 15996>>, <<-58, 1716, 5430, 16380, 6007>>,
       <<-58, 1715, 12176, 7895, 15087>>, <<-58, 1715, 2547, 14227, 4127>>, <<-58, 1714, 9313, 2328, 10483>>,
       <<-58, 1713, 16088, 4691, 485>>, <<-58, 1713, 6489, 4654, 477>>, <<-58, 1712, 13284, 1941, 14863>>,
       <<-58, 1712, 3704, 12663, 9690>>, <<-58, 1711, 10519, 3776, 10918>>, <<-58, 1711, 959, 7775, 6084>>,
       <<-58, 1710, 7793, 8002, 9803>>, <<-58, 1709, 14637, 4185, 14588>>, <<-58, 1709, 5106, 12437, 7196>>,
       <<-58, 1708, 11969, 16102, 1366>>, <<-58, 1708, 2458, 14909, 5018>>, <<-58, 1707, 9341, 8589, 3838>>,
       <<-58, 1706, 16233, 13256, 10396>>, <<-58, 1706, 6751, 12258, 14964>>, <<-58, 1705, 13663, 5328, 1865>>,
       <<-58, 1705, 4200, 8580, 14981>>, <<-58, 1704, 11131, 5366, 10262>>, <<-58, 1704, 1687, 11803, 3153>>,
       <<-58, 1703, 8637, 11241, 3024>>, <<-58, 1702, 15597, 3415, 13142>>, <<-58, 1702, 6182, 4446, 14251>>,
       <<-58, 1701, 13160, 14070, 13698>>, <<-58, 1701, 3764, 15640, 12633>>, <<-58, 1700, 10762, 8894, 5972>>,
       <<-58, 1700, 1385, 9953, 15144>>, <<-58, 1699, 8402, 2174, 6134>>, <<-58, 1698, 15428, 1679, 4140>>,
       <<-58, 1698, 6079, 8208, 11627>>, <<-58, 1697, 13124, 5119, 8294>>, <<-58, 1697, 3794, 8537, 194>>,
       <<-58, 1696, 10858, 1819, 3324>>, <<-58, 1696, 1547, 1092, 10825>>, <<-58, 1695, 8629, 6100, 9334>>,
       <<-58, 1694, 15721, 202, 11726>>, <<-58, 1694, 6437, 15911, 7932>>, <<-58, 1693, 13548, 3819, 14058>>,
       <<-58, 1693, 4283, 12825, 6821>>, <<-58, 1692, 11412, 9906, 5444>>, <<-58, 1692, 2166, 11193, 6084>>,
       <<-58, 1691, 9314, 49, 14576>>, <<-58, 1691, 86, 8991, 13633>>, <<-58, 1690, 7252, 4999, 11971>>,
       <<-58, 1689, 14427, 4206, 11511>>, <<-58, 1689, 5227, 6362, 7352>>, <<-58, 1688, 12420, 11217, 4123>>,
       <<-58, 1688, 3239, 2137, 15959>>, <<-58, 1687, 10450, 11644, 933>>, <<-58, 1687, 1287, 6719, 8485>>,
       <<-58, 1686, 8517, 3500, 15556>>, <<-58, 1685, 15756, 1741, 8476>>, <<-58, 1685, 6620, 1194, 15705>>,
       <<-58, 1684, 13877, 1615, 9506>>, <<-58, 1684, 4759, 2758, 4213>>, <<-58, 1683, 12034, 4378, 7058>>,
       <<-58, 1683, 2934, 6232, 1758>>, <<-58, 1682, 10227, 8075, 14020>>, <<-58, 1682, 1145, 9666, 13215>>,
       <<-58, 1681, 8456, 10762, 10650>>, <<-58, 1680, 15776, 11121, 10393>>, <<-58, 1680, 6721, 10502, 9242>>,
       <<-58, 1679, 14059, 8664, 13086>>, <<-58, 1679, 5022, 5368, 4106>>, <<-58, 1678, 12378, 373, 6287>>,
       <<-58, 1678, 3358, 9825, 3472>>, <<-58, 1677, 10732, 717, 4868>>, <<-58, 1677, 1730, 5579, 12255>>,
       <<-58, 1676, 9121, 7791, 3574>>, <<-58, 1676, 137, 7114, 14821>>, <<-58, 1675, 7546, 3314, 8947>>,
       <<-58, 1674, 14963, 12538, 6910>>, <<-58, 1674, 6006, 1783, 5720>>, <<-58, 1673, 13441, 3582, 11187>>,
       <<-58, 1673, 4501, 1318, 5129>>, <<-58, 1672, 11953, 11140, 10875>>, <<-58, 1672, 3031, 48, 11326>>,
       <<-58, 1671, 10501, 577, 14463>>, <<-58, 1671, 1595, 12496, 4168>>, <<-58, 1670, 9083, 2804, 5738>>,
       <<-58, 1670, 195, 4039, 3937>>, <<-58, 1669, 7699, 15970, 8508>>, <<-58, 1668, 15213, 5600, 4997>>,
       <<-58, 1668, 6351, 5467, 3876>>, <<-58, 1667, 13881, 15342, 7756>>, <<-58, 1667, 5037, 2229, 11356>>,
       <<-58, 1666, 12584, 15053, 1483>>, <<-58, 1666, 3757, 4433, 6158>>, <<-58, 1665, 11322, 2911, 12669>>,
       <<-58, 1665, 2511, 10262, 319>>, <<-58, 1664, 10093, 9874, 5934>>, <<-58, 1664, 1300, 1523, 9152>>,
       <<-58, 1663, 8899, 1368, 14318>>, <<-58, 1663, 122, 9186, 1310>>, <<-58, 1662, 7738, 8367, 7434>>,
       <<-58, 1661, 15362, 15073, 12708>>, <<-58, 1661, 6611, 12698, 5383>>, <<-58, 1660, 14253, 1018, 14677>>,
       <<-58, 1660, 5518, 12581, 12456>>, <<-58, 1659, 13176, 14397, 11509>>, <<-58, 1659, 4459, 6245, 16373>>,
       <<-58, 1658, 12134, 4290, 6928>>, <<-58, 1658, 3433, 8311, 3910>>, <<-58, 1657, 11125, 1705, 3346>>,
       <<-58, 1657, 2441, 637, 9306>>, <<-58, 1656, 10149, 4890, 1107>>, <<-58, 1656, 1481, 14244, 15214>>,
       <<-58, 1655, 9206, 12100, 14138>>, <<-58, 1655, 555, 14625, 1112>>, <<-58, 1654, 8297, 5217, 3672>>,
       <<-58, 1653, 16047, 45, 8108>>, <<-58, 1653, 7420, 15278, 8589>>, <<-58, 1652, 15187, 1549, 7141>>,
       <<-58, 1652, 6577, 7795, 13623>>, <<-58, 1651, 14360, 1035, 12941>>, <<-58, 1651, 5766, 13823, 14172>>,
       <<-58, 1650, 13565, 13179, 1396>>, <<-58, 1650, 4988, 15272, 15587>>, <<-58, 1649, 12804, 3509, 7140>>,
       <<-58, 1649, 4243, 10444, 16071>>, <<-58, 1648, 12075, 3100, 8157>>, <<-58, 1648, 3530, 14033, 5982>>,
       <<-58, 1647, 11378, 10265, 6999>>, <<-58, 1647, 2850, 7970, 16276>>, <<-58, 1646, 10714, 6940, 13704>>,
       <<-58, 1646, 2202, 6966, 3129>>, <<-58, 1645, 10082, 7838, 12330>>, <<-58, 1645, 1586, 9350, 11081>>,
       <<-58, 1644, 9482, 11294, 9426>>, <<-58, 1644, 1002, 13463, 8514>>, <<-58, 1643, 8914, 15651, 572>>,
       <<-58, 1643, 451, 1267, 1656>>, <<-58, 1642, 8379, 2874, 2475>>, <<-58, 1641, 16315, 3883, 1138>>,
       <<-58, 1641, 7875, 4089, 3136>>, <<-58, 1640, 15827, 3288, 4934>>, <<-58, 1640, 7403, 1276, 10337>>,
       <<-58, 1639, 15370, 14234, 14082>>, <<-58, 1639, 6962, 9192, 1821>>, <<-58, 1638, 14946, 2329, 15634>>,
       <<-58, 1638, 6553, 9830, 6554>>, <<-58, 1637, 14552, 15107, 14768>>, <<-58, 1637, 6176, 1577, 5760>>,
       <<-58, 1636, 14191, 1806, 1362>>, <<-58, 1636, 5829, 15593, 14196>>, <<-58, 1635, 13860, 9972, 14887>>,
       <<-58, 1635, 5515, 1127, 13963>>, <<-58, 1634, 13561, 5243, 12683>>, <<-58, 1634, 5231, 5738, 3018>>,
       <<-58, 1633, 13293, 2413, 397>>, <<-58, 1633, 4978, 11454, 10920>>, <<-58, 1632, 13055, 16281, 14956>>,
       <<-58, 1632, 4757, 313, 16273>>, <<-58, 1631, 12849, 12506, 9253>>, <<-58, 1631, 4566, 3511, 11638>>,
       <<-58, 1630, 12674, 5901, 15358>>, <<-58, 1630, 4406, 3098, 2900>>, <<-58, 1629, 12529, 11289, 12820>>,
       <<-58, 1629, 4276, 13898, 8654>>, <<-58, 1628, 12415, 10730, 9971>>, <<-58, 1628, 4178, 1592, 10433>>,
       <<-58, 1627, 12332, 2675, 10543>>, <<-58, 1627, 4109, 13787, 1245>>, <<-58, 1626, 12279, 1966, 13055>>,
       <<-58, 1626, 4071, 16175, 1354>>, <<-58, 1625, 12256, 7068, 10209>>, <<-58, 1625, 4064, 7224, 8517>>,
       <<-58, 1624, 12264, 68, 4670>>, <<-58, 1624, 4087, 1793, 13772>>, <<-58, 1623, 12301, 12211, 8468>>,
       <<-58, 1623, 4139, 14748, 842>>, <<-58, 1622, 12369, 9214, 9636>>, <<-58, 1622, 4222, 11806, 11076>>,
       <<-58, 1621, 12467, 5952, 4390>>, <<-58, 1621, 4335, 7847, 11790>>, <<-58, 1620, 12595, 921, 12920>>,
       <<-58, 1620, 4478, 1371, 10371>>, <<-58, 1619, 12752, 9010, 13280>>, <<-58, 1619, 4650, 7269, 4544>>,
       <<-58, 1618, 12939, 12345, 6339>>, <<-58, 1618, 4852, 7669, 14563>>, <<-58, 1617, 13156, 9441, 15208>>,
       <<-58, 1617, 5084, 1093, 720>>, <<-58, 1616, 13402, 15207, 2753>>, <<-58, 1616, 5345, 2448, 10231>>,
       <<-58, 1615, 13678, 11786, 2096>>, <<-58, 1615, 5635, 10268, 12829>>, <<-58, 1614, 13983, 14098, 1363>>,
       <<-58, 1614, 5955, 6707, 14897>>, <<-58, 1613, 14318, 4300, 8664>>, <<-58, 1613, 6304, 6694, 9749>>,
       <<-58, 1612, 14681, 13709, 2385>>, <<-58, 1612, 6682, 8779, 9854>>, <<-58, 1611, 15074, 8109, 12554>>,
       <<-58, 1611, 7089, 11519, 13512>>, <<-58, 1610, 15496, 2446, 5605>>, <<-58, 1610, 7525, 13478, 4307>>,
       <<-58, 1609, 15946, 11668, 14906>>, <<-58, 1609, 7990, 13223, 16103>>, <<-58, 1609, 42, 1581, 9147>>,
       <<-58, 1608, 8484, 9332, 1434>>, <<-58, 1608, 550, 3530, 6490>>, <<-58, 1607, 9007, 383, 11188>>,
       <<-58, 1607, 1086, 16099, 8496>>, <<-58, 1606, 9558, 1349, 13852>>, <<-58, 1606, 1652, 5110, 15984>>,
       <<-58, 1605, 10137, 10823, 9674>>, <<-58, 1605, 2246, 1928, 12116>>, <<-58, 1604, 10745, 11019, 13752>>,
       <<-58, 1604, 2868, 5154, 11026>>, <<-58, 1603, 11382, 543, 6361>>, <<-58, 1603, 3518, 13396, 8151>>,
       <<-58, 1602, 12046, 10772, 14353>>, <<-58, 1602, 4197, 8883, 12479>>, <<-58, 1601, 12739, 7556, 12341>>,
       <<-58, 1601, 4904, 6619, 13270>>, <<-58, 1600, 13460, 5901, 4103>>, <<-58, 1600, 5639, 5229, 12314>>,
       <<-58, 1599, 14209, 4434, 5698>>, <<-58, 1599, 6402, 3344, 7039>>, <<-58, 1598, 14986, 1789, 12182>>,
       <<-58, 1598, 7192, 15984, 6394>>, <<-58, 1597, 15790, 12990, 13502>>, <<-58, 1597, 8011, 9023, 13962>>,
       <<-58, 1597, 239, 3914, 10374>>, <<-58, 1596, 8857, 13878, 11086>>, <<-58, 1596, 1099, 5979, 13791>>,
       <<-58, 1595, 9731, 12818, 5518>>, <<-58, 1595, 1987, 1458, 11762>>, <<-58, 1594, 10633, 4501, 14554>>,
       <<-58, 1594, 2902, 5397, 1594>>, <<-58, 1593, 11562, 3977, 15390>>, <<-58, 1593, 3845, 78, 5787>>,
       <<-58, 1592, 12518, 9916, 10175>>, <<-58, 1592, 4815, 559, 6019>>, <<-58, 1591, 13502, 4609, 9147>>,
       <<-58, 1591, 5812, 5518, 8201>>, <<-58, 1590, 14513, 3121, 13773>>, <<-58, 1590, 6836, 13639, 9236>>,
       <<-58, 1589, 15551, 4139, 16270>>, <<-58, 1589, 7888, 7227, 12925>>, <<-58, 1589, 232, 6355, 15524>>,
       <<-58, 1588, 8967, 1361, 13117>>, <<-58, 1588, 1324, 8467, 232>>, <<-58, 1587, 10072, 11125, 9627>>,
       <<-58, 1587, 2443, 9175, 13975>>, <<-58, 1586, 11205, 2456, 7767>>, <<-58, 1586, 3589, 7190, 7301>>,
       <<-58, 1585, 12364, 6833, 1509>>, <<-58, 1585, 4762, 1224, 1104>>, <<-58, 1584, 13550, 6587, 5788>>,
       <<-58, 1584, 5961, 6379, 4248>>, <<-58, 1583, 14763, 440, 6899>>, <<-58, 1583, 7187, 4995, 13113>>,
       <<-58, 1582, 16002, 3502, 11197>>, <<-58, 1582, 8439, 12186, 11148>>, <<-58, 1582, 883, 14505, 11876>>,
       <<-58, 1581, 9718, 10302, 1185>>, <<-58, 1581, 2175, 15802, 4914>>, <<-58, 1580, 11023, 14465, 5000>>,
       <<-58, 1580, 3494, 6134, 5006>>, <<-58, 1579, 12355, 7036, 13717>>, <<-58, 1579, 4839, 632, 12362>>,
       <<-58, 1578, 13713, 3150, 3751>>, <<-58, 1578, 6209, 14433, 12264>>, <<-58, 1577, 15097, 1560, 1913>>,
       <<-58, 1577, 7606, 13526, 7404>>, <<-58, 1577, 123, 1026, 3049>>, <<-58, 1576, 9029, 13057, 1062>>,
       <<-58, 1576, 1559, 313, 2385>>, <<-58, 1575, 10478, 11792, 13067>>, <<-58, 1575, 3020, 14574, 11477>>,
       <<-58, 1574, 11953, 8505, 13830>>, <<-58, 1574, 4508, 9817, 8636>>, <<-58, 1573, 13454, 1973, 5841>>,
       <<-58, 1573, 6022, 1205, 4043>>, <<-58, 1572, 14980, 7361, 6866>>, <<-58, 1572, 7561, 3906, 6559>>,
       <<-58, 1572, 148, 7073, 372>>, <<-58, 1571, 9126, 326, 6923>>, <<-58, 1571, 1725, 16284, 652>>,
       <<-58, 1570, 10716, 5643, 10109>>, <<-58, 1570, 3329, 1023, 3256>>, <<-58, 1569, 12332, 2273, 2141>>,
       <<-58, 1569, 4957, 9244, 966>>, <<-58, 1568, 13973, 5402, 15225>>, <<-58, 1568, 6611, 6984, 16155>>,
       <<-58, 1567, 15639, 13841, 12648>>, <<-58, 1567, 8290, 9441, 2079>>, <<-58, 1567, 947, 10019, 3068>>,
       <<-58, 1566, 9994, 15428, 6312>>, <<-58, 1566, 2664, 9137, 7341>>, <<-58, 1565, 11724, 7383, 6507>>,
       <<-58, 1565, 4406, 10019, 8969>>, <<-58, 1564, 13479, 515, 8301>>, <<-58, 1564, 6173, 11493, 2858>>,
       <<-58, 1563, 15258, 10038, 12152>>, <<-58, 1563, 7965, 12390, 11304>>, <<-58, 1563, 679, 2019, 12948>>,
       <<-58, 1562, 9782, 11549, 1687>>, <<-58, 1562, 2508, 8065, 15997>>, <<-58, 1561, 11624, 7810, 762>>,
       <<-58, 1561, 4362, 10637, 3871>>, <<-58, 1560, 13491, 19, 12360>>, <<-58, 1560, 6241, 8582, 1560>>,
       <<-58, 1559, 15382, 3413, 615>>, <<-58, 1559, 8145, 753, 10551>>, <<-58, 1559, 914, 461, 4269>>,
       <<-58, 1558, 10073, 2393, 8445>>, <<-58, 1558, 2854, 6408, 5223>>, <<-58, 1557, 12025, 12363, 14117>>,
       <<-58, 1557, 4819, 3734, 10081>>, <<-58, 1556, 14002, 13147, 5419>>, <<-58, 1556, 6808, 7693, 618>>,
       <<-58, 1555, 16004, 3615, 725>>, <<-58, 1555, 8822, 772, 15331>>, <<-58, 1555, 1645, 15410, 9410>>,
       <<-58, 1554, 10859, 14620, 1612>>, <<-58, 1554, 3695, 14645, 15096>>, <<-58, 1553, 12921, 15348, 11987>>,
       <<-58, 1553, 5770, 205, 8050>>, <<-58, 1552, 15008, 1845, 7144>>, <<-58, 1552, 7868, 3746, 1209>>,
       <<-58, 1552, 734, 5769, 3024>>, <<-58, 1551, 9990, 7776, 13427>>, <<-58, 1551, 2868, 9631, 4923>>,
       <<-58, 1550, 12136, 11195, 3586>>, <<-58, 1550, 5026, 12331, 7136>>, <<-58, 1549, 14306, 12903, 1304>>,
       <<-58, 1549, 7208, 12773, 8979>>, <<-58, 1549, 116, 11806, 8277>>, <<-58, 1548, 9414, 9865, 14442>>,
       <<-58, 1548, 2334, 6815, 14311>>, <<-58, 1547, 11644, 2520, 15444>>, <<-58, 1547, 4575, 13229, 13353>>,
       <<-58, 1546, 13897, 6039, 7872>>, <<-58, 1546, 6840, 13583, 3144>>, <<-58, 1545, 16174, 2958, 7615>>,
       <<-58, 1545, 9129, 6799, 1251>>, <<-58, 1545, 2090, 8587, 1067>>, <<-58, 1544, 11441, 8188, 11960>>,
       <<-58, 1544, 4414, 5470, 10318>>, <<-58, 1543, 13777, 299, 9545>>, <<-58, 1543, 6761, 8926, 10894>>,
       <<-58, 1542, 16135, 14835, 3463>>, <<-58, 1542, 9132, 1508, 13333>>, <<-58, 1542, 2134, 1583, 5252>>,
       <<-58, 1541, 11525, 14926, 13701>>, <<-58, 1541, 4539, 8639, 11805>>, <<-58, 1540, 13942, 15358, 9635>>,
       <<-58, 1540, 6968, 2184, 5037>>, <<-58, 1539, 16383, 1754, 13>>, <<-58, 1539, 9419, 13937, 705>>,
       <<-58, 1539, 2462, 5835, 1006>>, <<-58, 1538, 11894, 10085, 15311>>, <<-58, 1538, 4948, 10175, 12978>>,
       <<-58, 1537, 14392, 5975, 234>>, <<-58, 1537, 7457, 13738, 3779>>, <<-58, 1537, 529, 568, 5244>>,
       <<-58, 1536, 9989, 15488, 6717>>, <<-58, 1536, 3072, 9217, 14343>>, <<-58, 1535, 12544, 14396, 5552>>,
       <<-58, 1535, 5638, 14511, 10968>>, <<-58, 1534, 15122, 9435, 16093>>, <<-58, 1534, 8227, 15425, 10449>>,
       <<-58, 1534, 1338, 15969, 3955>>, <<-58, 1533, 10839, 10939, 10530>>, <<-58, 1533, 3962, 209, 15318>>,
       <<-58, 1532, 13474, 37, 7443>>, <<-58, 1532, 6607, 10295, 12769>>, <<-58, 1531, 16130, 14474, 11970>>,
       <<-58, 1531, 9275, 12448, 6057>>, <<-58, 1531, 2426, 4090, 16368>>, <<-58, 1530, 11966, 5661, 2635>>,
       <<-58, 1530, 5128, 649, 10438>>, <<-58, 1529, 14679, 5315, 7346>>, <<-58, 1529, 7852, 3149, 13986>>,
       <<-58, 1529, 1030, 10412, 5728>>, <<-58, 1528, 10598, 10594, 10978>>, <<-58, 1528, 3788, 3572, 12867>>,
       <<-58, 1527, 13367, 5606, 14773>>, <<-58, 1527, 6568, 189, 7548>>, <<-58, 1526, 16158, 3581, 2277>>,
       <<-58, 1526, 9369, 15658, 13880>>, <<-58, 1526, 2587, 3531, 11954>>, <<-58, 1525, 12193, 16229, 2683>>,
       <<-58, 1525, 5422, 4476, 12446>>, <<-58, 1524, 15040, 920, 5883>>, <<-58, 1524, 8279, 5438, 582>>,
       <<-58, 1524, 1524, 1524, 1524>>, <<-58, 1523, 11158, 5441, 1082>>, <<-58, 1523, 4414, 683, 11775>>,
       <<-58, 1522, 14059, 3515, 726>>, <<-58, 1522, 7325, 13814, 4336>>, <<-58, 1522, 597, 15076, 13593>>,
       <<-58, 1521, 10259, 7182, 6828>>, <<-58, 1521, 3542, 6394, 15240>>, <<-58, 1520, 13214, 12594, 8204>>,
       <<-58, 1520, 6508, 9277, 7943>>, <<-58, 1519, 16191, 12708, 7608>>, <<-58, 1519, 9496, 6384, 4029>>,
       <<-58, 1519, 2806, 6569, 14094>>, <<-58, 1518, 12505, 13146, 9202>>, <<-58, 1518, 5826, 9611, 13562>>,
       <<-58, 1517, 15536, 12231, 5877>>, <<-58, 1517, 8868, 4503, 1255>>, <<-58, 1517, 2205, 2693, 2050>>,
       <<-58, 1516, 11931, 6683, 14235>>, <<-58, 1516, 5278, 16357, 14629>>, <<-58, 1515, 15015, 15214, 35>>,
       <<-58, 1515, 8374, 3135, 3622>>, <<-58, 1515, 1737, 12772, 12989>>, <<-58, 1514, 11490, 11242, 2930>>,
       <<-58, 1514, 4864, 14811, 960>>, <<-58, 1513, 14628, 6979, 5384>>, <<-58, 1513, 8013, 4015, 1675>>,
       <<-58, 1513, 1403, 5802, 11617>>, <<-58, 1512, 11182, 12226, 11377>>, <<-58, 1512, 4583, 6787, 13415>>,
       <<-58, 1511, 14373, 5755, 941>>, <<-58, 1511, 7784, 9013, 9825>>, <<-58, 1511, 1201, 64, 13901>>,
       <<-58, 1510, 11006, 11562, 6882>>, <<-58, 1510, 4433, 10624, 2347>>, <<-58, 1509, 14249, 13520, 966>>,
       <<-58, 1509, 7687, 3752, 6877>>, <<-58, 1509, 1129, 13975, 11293>>, <<-58, 1508, 10961, 11308, 8878>>,
       <<-58, 1508, 4414, 12021, 14121>>, <<-58, 1507, 14256, 16002, 12180>>, <<-58, 1507, 7720, 6754, 8020>>,
       <<-58, 1507, 1189, 548, 10026>>, <<-58, 1506, 11046, 13656, 13608>>, <<-58, 1506, 4525, 13199, 1194>>,
       <<-58, 1505, 14393, 15447, 7758>>, <<-58, 1505, 7883, 3906, 6123>>, <<-58, 1505, 1377, 11232, 5258>>,
       <<-58, 1504, 11261, 4546, 1116>>, <<-58, 1504, 4766, 120, 9397>>, <<-58, 1503, 14659, 14229, 3>>,
       <<-58, 1503, 8174, 13992, 11717>>, <<-58, 1503, 1694, 15685, 4740>>, <<-58, 1502, 11604, 2812, 8137>>,
       <<-58, 1502, 5134, 8032, 5144>>, <<-58, 1501, 15053, 14850, 15082>>, <<-58, 1501, 8594, 6774, 11421>>,
       <<-58, 1501, 2140, 78, 3702>>, <<-58, 1500, 12074, 11036, 4754>>, <<-58, 1500, 5630, 6771, 14305>>,
       <<-58, 1499, 15575, 3560, 2591>>, <<-58, 1499, 9141, 1292, 8653>>, <<-58, 1499, 2711, 16244, 9252>>,
       <<-58, 1498, 12671, 15540, 787>>, <<-58, 1498, 6252, 15454, 15671>>, <<-58, 1497, 16222, 15881, 7630>>,
       <<-58, 1497, 9814, 327, 15544>>, <<-58, 1497, 3410, 1454, 15974>>, <<-58, 1496, 13395, 2771, 5083>>,
       <<-58, 1496, 7001, 4169, 15004>>, <<-58, 1496, 612, 5543, 15537>>, <<-58, 1495, 10612, 6786, 12440>>,
       <<-58, 1495, 4233, 7791, 14655>>, <<-58, 1494, 14243, 8453, 1532>>, <<-58, 1494, 7874, 8664, 4743>>,
       <<-58, 1494, 1510, 8319, 9970>>, <<-58, 1493, 11535, 7313, 6047>>, <<-58, 1493, 5181, 5540, 1341>>,
       <<-58, 1492, 15216, 2894, 7358>>, <<-58, 1492, 8871, 15655, 5970>>, <<-58, 1492, 2532, 10949, 14938>>,
       <<-58, 1491, 12582, 5057, 5992>>, <<-58, 1491, 6252, 14257, 3124>>, <<-58, 1490, 16312, 5677, 659>>,
       <<-58, 1490, 9992, 11980, 12405>>, <<-58, 1490, 3678, 296, 6104>>, <<-58, 1489, 13752, 3288, 1732>>,
       <<-58, 1489, 7447, 4468, 5958>>, <<-58, 1489, 1147, 3733, 12131>>, <<-58, 1488, 11236, 981, 277>>,
       <<-58, 1488, 4945, 12491, 2628>>, <<-58, 1487, 15044, 5393, 5308>>, <<-58, 1487, 8763, 12352, 13867>>,
       <<-58, 1487, 2488, 499, 4116>>, <<-58, 1486, 12601, 2498, 4043>>, <<-58, 1486, 6335, 1863, 11888>>,
       <<-58, 1486, 73, 14877, 12515>>, <<-58, 1485, 10201, 8670, 10177>>, <<-58, 1485, 3949, 15908, 12125>>,
       <<-58, 1484, 14087, 3722, 12214>>, <<-58, 1484, 7845, 4779, 7283>>, <<-58, 1484, 1608, 2593, 13532>>,
       <<-58, 1483, 11759, 13449, 977>>, <<-58, 1483, 5532, 4476, 8133>>, <<-58, 1482, 15693, 8343, 10935>>,
       <<-58, 1482, 9475, 8566, 4650>>, <<-58, 1482, 3262, 5044, 3871>>, <<-58, 1481, 13437, 14061, 9745>>,
       <<-58, 1481, 7234, 2750, 9958>>, <<-58, 1481, 1035, 3779, 11508>>, <<-58, 1480, 11225, 665, 7920>>,
       <<-58, 1480, 5035, 9692, 12012>>, <<-58, 1479, 15234, 14378, 6738>>, <<-58, 1479, 9054, 14623, 10711>>,
       <<-58, 1479, 2879, 10329, 12669>>, <<-58, 1478, 13093, 1398, 4228>>, <<-58, 1478, 6927, 4114, 12650>>,
       <<-58, 1478, 766, 1997, 2527>>, <<-58, 1477, 10993, 11331, 6852>>, <<-58, 1477, 4841, 15635, 12319>>,
       <<-58, 1476, 15078, 14812, 8472>>, <<-58, 1476, 8936, 8764, 4081>>, <<-58, 1476, 2798, 13777, 10754>>,
       <<-58, 1475, 13049, 13371, 10157>>, <<-58, 1475, 6921, 7449, 3166>>, <<-58, 1475, 797, 12297, 9856>>,
       <<-58, 1474, 11062, 11436, 3961>>, <<-58, 1474, 4948, 4768, 11172>>, <<-58, 1473, 15222, 8582, 10821>>,
       <<-58, 1473, 9117, 6398, 1421>>, <<-58, 1473, 3016, 14503, 650>>, <<-58, 1472, 13305, 33, 12580>>,
       <<-58, 1472, 7213, 12046, 11289>>, <<-58, 1472, 1127, 1294, 6388>>, <<-58, 1471, 11429, 449, 10247>>,
       <<-58, 1471, 5351, 9417, 5223>>, <<-58, 1470, 15662, 11718, 9185>>, <<-58, 1470, 9594, 7258, 9978>>,
       <<-58, 1470, 3530, 12326, 14563>>, <<-58, 1469, 13855, 10444, 16247>>, <<-58, 1469, 7801, 1518, 11058>>,
       <<-58, 1469, 1751, 1837, 14125>>, <<-58, 1468, 12089, 11308, 10518>>, <<-58, 1468, 6048, 13453, 4396>>,
       <<-58, 1468, 12, 8178, 2615>>, <<-58, 1467, 10364, 11773, 14723>>, <<-58, 1467, 4337, 7763, 3800>>,
       <<-58, 1466, 14698, 12437, 1142>>, <<-58, 1466, 8680, 9318, 7953>>, <<-58, 1466, 2666, 14698, 11716>>,
       <<-58, 1465, 13041, 12101, 2580>>, <<-58, 1465, 7037, 1433, 6113>>, <<-58, 1465, 1036, 15371, 1384>>,
       <<-58, 1464, 11425, 4670, 2871>>, <<-58, 1464, 5434, 2006, 11308>>, <<-58, 1463, 15831, 7288, 13674>>,
       <<-58, 1463, 9849, 4040, 15958>>, <<-58, 1463, 3871, 8555, 10388>>, <<-58, 1462, 14282, 4357, 8186>>,
       <<-58, 1462, 8313, 7739, 6800>>, <<-58, 1462, 2349, 2226, 6280>>, <<-58, 1461, 12773, 4111, 9272>>,
       <<-58, 1461, 6817, 13304, 4629>>, <<-58, 1461, 866, 13330, 173>>, <<-58, 1460, 11304, 4098, 6305>>,
       <<-58, 1460, 5362, 1903, 3230>>, <<-58, 1459, 15808, 6654, 6490>>, <<-58, 1459, 9875, 1878, 1421>>,
       <<-58, 1459, 3946, 3868, 8682>>, <<-58, 1458, 14405, 12536, 2329>>, <<-58, 1458, 8485, 11407, 8119>>,
       <<-58, 1458, 2570, 393, 5192>>, <<-58, 1457, 13042, 12172, 7991>>, <<-58, 1457, 7135, 13888, 719>>,
       <<-58, 1457, 1233, 5451, 2867>>, <<-58, 1456, 11719, 3157, 3678>>, <<-58, 1456, 5825, 6917, 11287>>,
       <<-58, 1455, 16320, 260, 3567>>, <<-58, 1455, 10434, 15864, 10043>>, <<-58, 1455, 4554, 4490, 13583>>,
       <<-58, 1454, 15061, 15202, 15927>>, <<-58, 1454, 9189, 15145, 4912>>, <<-58, 1454, 3322, 4230, 3625>>,
       <<-58, 1453, 13842, 15138, 4854>>, <<-58, 1453, 7983, 15014, 3855>>, <<-58, 1453, 2129, 3770, 14728>>,
       <<-58, 1452, 12662, 14089, 4878>>, <<-58, 1452, 6816, 13114, 9696>>, <<-58, 1452, 975, 760, 1481>>,
       <<-58, 1451, 11521, 9707, 4126>>, <<-58, 1451, 5688, 7101, 11187>>, <<-58, 1450, 16243, 9241, 2268>>,
       <<-58, 1450, 10418, 16039, 8546>>, <<-58, 1450, 4598, 11026, 14464>>, <<-58, 1449, 15166, 10501, 6881>>,
       <<-58, 1449, 9354, 14377, 7827>>, <<-58, 1449, 3547, 6185, 8969>>, <<-58, 1448, 14128, 2224, 4370>>,
       <<-58, 1448, 8329, 2408, 6870>>, <<-58, 1448, 2534, 6652, 15309>>, <<-58, 1447, 13127, 14872, 14525>>,
       <<-58, 1447, 7341, 10599, 8117>>, <<-58, 1447, 1559, 10132, 2053>>, <<-58, 1446, 12165, 13386, 4668>>,
       <<-58, 1446, 6392, 3893, 10272>>, <<-58, 1446, 622, 14337, 15531>>, <<-58, 1445, 11241, 11867, 3077>>,
       <<-58, 1445, 5480, 12781, 7037>>, <<-58, 1444, 16108, 612, 14729>>, <<-58, 1444, 10355, 8045, 15802>>,
       <<-58, 1444, 4607, 2229, 2237>>, <<-58, 1443, 15246, 15847, 1107>>, <<-58, 1443, 9506, 16048, 9035>>,
       <<-58, 1443, 3771, 2750, 8575>>, <<-58, 1442, 14423, 8638, 974>>, <<-58, 1442, 8696, 860, 6168>>,
       <<-58, 1442, 2972, 12102, 13623>>, <<-58, 1441, 13637, 9514, 15100>>, <<-58, 1441, 7922, 9398, 4649>>,
       <<-58, 1441, 2211, 11670, 11371>>, <<-58, 1440, 12888, 16250, 1111>>, <<-58, 1440, 7186, 6670, 7526>>,
       <<-58, 1440, 1487, 15618, 1002>>, <<-58, 1439, 12177, 10243, 3346>>, <<-58, 1439, 6487, 6848, 5853>>,
       <<-58, 1439, 801, 5352, 2074>>, <<-58, 1438, 11503, 5673, 4194>>, <<-58, 1438, 5825, 7730, 10259>>,
       <<-58, 1438, 151, 11443, 4168>>, <<-58, 1437, 10866, 346, 4827>>, <<-58, 1437, 5200, 7127, 601>>,
       <<-58, 1436, 15922, 15320, 14851>>, <<-58, 1436, 10265, 8463, 7621>>, <<-58, 1436, 4612, 2858, 6707>>,
       <<-58, 1435, 15346, 14809, 9348>>, <<-58, 1435, 9701, 11468, 14989>>, <<-58, 1435, 4060, 9140, 8893>>,
       <<-58, 1434, 14807, 7744, 11288>>, <<-58, 1434, 9174, 7201, 11825>>, <<-58, 1434, 3545, 7432, 2342>>,
       <<-58, 1433, 14304, 8356, 9629>>, <<-58, 1433, 8683, 9895, 13501>>, <<-58, 1433, 3066, 11970, 12329>>,
       <<-58, 1432, 13837, 14502, 6655>>, <<-58, 1432, 8229, 1027, 15566>>, <<-58, 1432, 2624, 4236, 11159>>,
       <<-58, 1431, 13407, 7666, 451>>, <<-58, 1431, 7810, 11237, 8994>>, <<-58, 1431, 2217, 14872, 15333>>,
       <<-58, 1430, 13013, 2110, 155>>, <<-58, 1430, 7428, 5638, 11816>>, <<-58, 1430, 1847, 8997, 2503>>,
       <<-58, 1429, 12654, 12107, 8448>>, <<-58, 1429, 7081, 14892, 2469>>, <<-58, 1429, 1513, 889, 8655>>,
       <<-58, 1428, 12332, 2790, 4055>>, <<-58, 1428, 6771, 4133, 598>>, <<-58, 1428, 1214, 4840, 12312>>,
       <<-58, 1427, 12045, 4836, 6178>>, <<-58, 1427, 6496, 4043, 421>>, <<-58, 1427, 951, 2383, 15358>>,
       <<-58, 1426, 11793, 16166, 7856>>, <<-58, 1426, 6256, 12546, 2400>>, <<-58, 1426, 723, 7830, 9170>>,
       <<-58, 1425, 11578, 1943, 7647>>, <<-58, 1425, 6052, 11192, 12154>>, <<-58, 1425, 531, 2734, 6306>>,
       <<-58, 1424, 11397, 9260, 8548>>, <<-58, 1424, 5883, 14311, 6612>>, <<-58, 1424, 374, 1427, 6665>>,
       <<-58, 1423, 11252, 3301, 536>>, <<-58, 1423, 5750, 3472, 14867>>, <<-58, 1423, 252, 1867, 12798>>,
       <<-58, 1422, 11141, 14794, 8659>>, <<-58, 1422, 5651, 9410, 2422>>, <<-58, 1422, 165, 2023, 12470>>,
       <<-58, 1421, 11066, 8944, 10055>>, <<-58, 1421, 5587, 13714, 1212>>, <<-58, 1421, 112, 16257, 10375>>,
       <<-58, 1420, 11026, 116, 14830>>, <<-58, 1420, 5558, 14369, 10256>>, <<-58, 1420, 95, 9789, 10710>>,
       <<-58, 1419, 11020, 2686, 15865>>, <<-58, 1419, 5564, 9371, 10999>>, <<-58, 1419, 112, 13385, 16144>>,
       <<-58, 1418, 11048, 14656, 4166>>, <<-58, 1418, 5604, 13108, 15441>>, <<-58, 1418, 164, 8670, 10404>>,
       <<-58, 1417, 11112, 1268, 609>>, <<-58, 1417, 5679, 7211, 15961>>, <<-58, 1417, 250, 10045, 6408>>,
       <<-58, 1416, 11209, 9695, 5775>>, <<-58, 1416, 5788, 6089, 688>>, <<-58, 1416, 370, 15537, 12492>>,
       <<-58, 1415, 11341, 5200, 15324>>, <<-58, 1415, 5931, 7774, 1649>>, <<-58, 1415, 525, 6800, 15018>>,
       <<-58, 1414, 11507, 2209, 2613>>, <<-58, 1414, 6108, 10310, 11850>>, <<-58, 1414, 713, 14649, 10149>>,
       <<-58, 1413, 11706, 15153, 16003>>, <<-58, 1413, 6319, 11752, 671>>, <<-58, 1413, 936, 4372, 2862>>,
       <<-58, 1412, 11940, 9326, 14039>>, <<-58, 1412, 6564, 10160, 11190>>, <<-58, 1412, 1192, 6802, 5969>>,
       <<-58, 1411, 12207, 15564, 11928>>, <<-58, 1411, 6843, 3608, 11746>>, <<-58, 1411, 1482, 3631, 6373>>,
       <<-58, 1410, 12508, 15561, 15031>>, <<-58, 1410, 7155, 6561, 9667>>, <<-58, 1410, 1805, 9327, 13262>>,
       <<-58, 1409, 12843, 7406, 1516>>, <<-58, 1409, 7501, 726, 1153>>, <<-58, 1409, 2162, 5601, 7991>>,
       <<-58, 1408, 13211, 5578, 3330>>, <<-58, 1408, 7880, 586, 3093>>, <<-58, 1408, 2552, 6939, 8675>>,
       <<-58, 1407, 13612, 8184, 6937>>, <<-58, 1407, 8292, 4251, 2970>>, <<-58, 1407, 2975, 11454, 3707>>,
       <<-58, 1406, 14046, 13340, 1538>>, <<-58, 1406, 8737, 9839, 7069>>, <<-58, 1406, 3432, 882, 16357>>,
       <<-58, 1405, 14514, 2785, 10900>>, <<-58, 1405, 9215, 15478, 6786>>, <<-58, 1405, 3921, 6124, 5543>>,
       <<-58, 1404, 15014, 7422, 10513>>, <<-58, 1404, 9727, 2920, 10465>>, <<-58, 1404, 4443, 8933, 12362>>,
       <<-58, 1403, 15547, 9009, 8589>>, <<-58, 1403, 10271, 3079, 9715>>, <<-58, 1403, 4998, 7459, 11721>>,
       <<-58, 1402, 16113, 5697, 12384>>, <<-58, 1402, 10847, 14109, 11270>>, <<-58, 1402, 5585, 16243, 9732>>,
       <<-58, 1402, 327, 12031, 10905>>, <<-58, 1401, 11457, 1406, 3318>>, <<-58, 1401, 6206, 683, 10046>>,
       <<-58, 1401, 958, 9796, 6781>>, <<-58, 1400, 12098, 12293, 3753>>, <<-58, 1400, 6858, 8106, 12955>>,
       <<-58, 1400, 1621, 13553, 15373>>, <<-58, 1399, 12772, 12183, 10135>>, <<-58, 1399, 7543, 3928, 14506>>,
       <<-58, 1399, 2317, 5106, 14733>>, <<-58, 1398, 13478, 15650, 15194>>, <<-58, 1398, 8260, 2726, 5624>>,
       <<-58, 1398, 3044, 15418, 10267>>, <<-58, 1397, 14217, 4509, 5950>>, <<-58, 1397, 9009, 2700, 3999>>,
       <<-58, 1397, 3804, 9925, 1088>>, <<-58, 1396, 14987, 9733, 11996>>, <<-58, 1396, 9790, 2060, 4073>>,
       <<-58, 1396, 4596, 3222, 11925>>, <<-58, 1395, 15789, 13155, 6333>>, <<-58, 1395, 10602, 15408, 8943>>,
       <<-58, 1395, 5419, 9916, 10340>>, <<-58, 1395, 239, 12998, 2814>>, <<-58, 1394, 11447, 8203, 13122>>,
       <<-58, 1394, 6274, 11852, 4183>>, <<-58, 1394, 1105, 7494, 6145>>, <<-58, 1393, 12323, 11449, 1696>>,
       <<-58, 1393, 7161, 7267, 7975>>, <<-58, 1393, 2002, 11268, 11039>>, <<-58, 1392, 13231, 7003, 15010>>,
       <<-58, 1392, 8079, 10792, 9300>>, <<-58, 1392, 2931, 6186, 1378>>, <<-58, 1391, 14170, 9504, 385>>,
       <<-58, 1391, 9029, 4298, 742>>, <<-58, 1391, 3891, 6887, 14918>>, <<-58, 1390, 15141, 825, 7889>>,
       <<-58, 1390, 10010, 2430, 11824>>, <<-58, 1390, 4882, 11639, 11392>>, <<-58, 1389, 16142, 12004, 9295>>,
       <<-58, 1389, 11022, 3461, 9883>>, <<-58, 1389, 5905, 2331, 2763>>, <<-58, 1389, 791, 8549, 11950>>,
       <<-58, 1388, 12065, 5669, 13943>>, <<-58, 1388, 6958, 10012, 3258>>, <<-58, 1388, 1855, 5129, 8810>>,
       <<-58, 1387, 13139, 7342, 11985>>, <<-58, 1387, 8043, 204, 12179>>, <<-58, 1387, 2950, 36, 10406>>,
       <<-58, 1386, 14244, 6775, 9298>>, <<-58, 1386, 9158, 3974, 13098>>, <<-58, 1386, 4075, 7955, 11277>>,
       <<-58, 1385, 15380, 2271, 11295>>, <<-58, 1385, 10304, 3244, 5833>>, <<-58, 1385, 5231, 10811, 5556>>,
       <<-58, 1385, 162, 8526, 6340>>, <<-58, 1384, 11480, 12711, 5658>>, <<-58, 1384, 6418, 6920, 2572>>,
       <<-58, 1384, 1359, 7474, 14114>>, <<-58, 1383, 12687, 14313, 9751>>, <<-58, 1383, 7635, 10990, 9682>>,
       <<-58, 1383, 2586, 13828, 2914>>, <<-58, 1382, 13925, 6380, 12800>>, <<-58, 1382, 8883, 4970, 15111>>,
       <<-58, 1382, 3844, 9537, 3569>>, <<-58, 1381, 15193, 3634, 6232>>, <<-58, 1381, 10161, 3585, 3566>>,
       <<-58, 1381, 5132, 9328, 10365>>, <<-58, 1381, 107, 4419, 10211>>, <<-58, 1380, 11469, 5181, 4623>>,
       <<-58, 1380, 6450, 11552, 13054>>, <<-58, 1380, 1435, 7089, 7349>>, <<-58, 1379, 12807, 8114, 10051>>,
       <<-58, 1379, 7798, 14567, 12476>>, <<-58, 1379, 2793, 10004, 7476>>, <<-58, 1378, 14175, 10748, 5822>>,
       <<-58, 1378, 9177, 355, 3431>>, <<-58, 1378, 4181, 11532, 14133>>, <<-58, 1377, 15573, 11453, 4133>>,
       <<-58, 1377, 10585, 56, 6690>>, <<-58, 1377, 5599, 10050, 7435>>, <<-58, 1377, 617, 8607, 9896>>,
       <<-58, 1376, 12022, 12052, 2730>>, <<-58, 1376, 7047, 3940, 8874>>, <<-58, 1376, 2075, 597, 3618>>,
       <<-58, 1375, 13490, 1962, 12910>>, <<-58, 1375, 8524, 7977, 15046>>, <<-58, 1375, 3562, 2199, 6204>>,
       <<-58, 1374, 14987, 952, 441>>, <<-58, 1374, 10031, 4176, 13308>>, <<-58, 1374, 5078, 11814, 12691>>,
       <<-58, 1374, 129, 7423, 733>>, <<-58, 1373, 11567, 7326, 13825>>, <<-58, 1373, 6624, 11467, 7920>>,
       <<-58, 1373, 1685, 3402, 5986>>, <<-58, 1372, 13132, 15840, 16080>>, <<-58, 1372, 8199, 15956, 14963>>,
       <<-58, 1372, 3270, 3691, 13632>>, <<-58, 1371, 14727, 11755, 8167>>, <<-58, 1371, 9804, 7321, 12495>>,
       <<-58, 1371, 4884, 6716, 9234>>, <<-58, 1370, 16351, 9881, 15230>>, <<-58, 1370, 11438, 375, 16012>>,
       <<-58, 1370, 6527, 10908, 14945>>, <<-58, 1370, 1620, 8655, 462>>, <<-58, 1369, 13100, 9940, 11589>>,
       <<-58, 1369, 8199, 14708, 6879>>, <<-58, 1369, 3302, 6516, 11859>>, <<-58, 1368, 14792, 1692, 4342>>,
       <<-58, 1368, 9901, 177, 12727>>, <<-58, 1368, 5013, 1916, 1310>>, <<-58, 1368, 128, 6850, 1349>>,
       <<-58, 1367, 11630, 14922, 12763>>, <<-58, 1367, 6752, 9693, 4125>>, <<-58, 1367, 1877, 7488, 10965>>,
       <<-58, 1366, 13389, 8252, 4694>>, <<-58, 1366, 8520, 11927, 7291>>, <<-58, 1366, 3655, 2073, 9377>>,
       <<-58, 1365, 15176, 11402, 2986>>, <<-58, 1365, 10317, 7088, 14322>>, <<-58, 1365, 5461, 5461, 5461>>,
       <<-58, 1365, 608, 6463, 5415>>, <<-58, 1364, 12142, 10038, 11824>>, <<-58, 1364, 7295, 16131, 7344>>,
       <<-58, 1364, 2452, 8301, 8788>>, <<-58, 1363, 13996, 2877, 1593>>, <<-58, 1363, 9158, 16186, 5352>>,
       <<-58, 1363, 4324, 15405, 8275>>, <<-58, 1362, 15878, 478, 16336>>, <<-58, 1362, 11050, 4119, 4122>>,
       <<-58, 1362, 6225, 9886, 13134>>, <<-58, 1362, 1404, 1342, 4325>>, <<-58, 1361, 12969, 11198, 5556>>,
       <<-58, 1361, 8154, 6631, 13289>>, <<-58, 1361, 3342, 3971, 8968>>, <<-58, 1360, 14917, 3162, 8170>>,
       <<-58, 1360, 10111, 4149, 11446>>, <<-58, 1360, 5308, 6878, 4322>>, <<-58, 1360, 508, 11293, 6450>>,
       <<-58, 1359, 12096, 956, 6063>>, <<-58, 1359, 7302, 8580, 9132>>, <<-58, 1359, 2512, 1343, 6589>>,
       <<-58, 1358, 14108, 11958, 7096>>, <<-58, 1358, 9324, 7603, 4274>>, <<-58, 1358, 4543, 4607, 9468>>,
       <<-58, 1357, 16149, 2917, 2590>>, <<-58, 1357, 11374, 2477, 14042>>, <<-58, 1357, 6602, 3235, 10020>>,
       <<-58, 1357, 1833, 5136, 7202>>, <<-58, 1356, 13451, 8126, 7209>>, <<-58, 1356, 8688, 12151, 12987>>,
       <<-58, 1356, 3929, 774, 12419>>, <<-58, 1355, 15556, 6709, 11092>>, <<-58, 1355, 10802, 13518, 15910>>,
       <<-58, 1355, 6052, 4765, 2321>>, <<-58, 1355, 1304, 13162, 12625>>, <<-58, 1354, 12944, 5890, 8507>>,
       <<-58, 1354, 8202, 15663, 2114>>, <<-58, 1354, 3464, 9659, 6894>>, <<-58, 1353, 15113, 4210, 4831>>,
       <<-58, 1353, 10380, 15646, 11976>>, <<-58, 1353, 5651, 11147, 12907>>, <<-58, 1353, 925, 7044, 9883>>,
       <<-58, 1352, 12586, 3284, 6451>>, <<-58, 1352, 7865, 16198, 7451>>, <<-58, 1352, 3148, 12966, 2624>>,
       <<-58, 1351, 14818, 9918, 15763>>, <<-58, 1351, 10107, 7004, 6406>>, <<-58, 1351, 5399, 4170, 910>>,
       <<-58, 1351, 694, 1363, 10521>>, <<-58, 1350, 12375, 14916, 14994>>, <<-58, 1350, 7676, 12009, 11738>>,
       <<-58, 1350, 2980, 8973, 15817>>, <<-58, 1349, 14671, 5757, 10795>>, <<-58, 1349, 9981, 2308, 14268>>,
       <<-58, 1349, 5293, 14959, 12325>>, <<-58, 1349, 609, 10890, 8700>>, <<-58, 1348, 12312, 6433, 8386>>,
       <<-58, 1348, 7634, 1537, 1245>>, <<-58, 1348, 2958, 12533, 11161>>, <<-58, 1347, 14670, 6603, 14116>>,
       <<-58, 1347, 10001, 80, 3724>>, <<-58, 1347, 5334, 9295, 7613>>, <<-58, 1347, 671, 1430, 5503>>,
       <<-58, 1346, 12394, 9201, 11120>>, <<-58, 1346, 7736, 16174, 6664>>, <<-58, 1346, 3082, 5913, 8337>>,
       <<-58, 1345, 14814, 11136, 808>>, <<-58, 1345, 10165, 15407, 2745>>, <<-58, 1345, 5520, 2292, 1278>>,
       <<-58, 1345, 877, 4508, 1146>>, <<-58, 1344, 12621, 5620, 8314>>, <<-58, 1344, 7984, 5578, 13586>>,
       <<-58, 1344, 3350, 4332, 8983>>, <<-58, 1343, 15103, 1831, 4131>>, <<-58, 1343, 10474, 14408, 9869>>,
       <<-58, 1343, 5849, 9246, 5481>>, <<-58, 1343, 1227, 2678, 4232>>, <<-58, 1342, 12991, 11038, 4208>>,
       <<-58, 1342, 8375, 1508, 4705>>, <<-58, 1342, 3761, 6806, 6218>>, <<-58, 1341, 15534, 10498, 10449>>,
       <<-58, 1341, 10926, 12535, 3911>>, <<-58, 1341, 6321, 12866, 7084>>, <<-58, 1341, 1719, 11442, 8874>>,
       <<-58, 1340, 13504, 8213, 15765>>, <<-58, 1340, 8908, 3131, 2662>>, <<-58, 1340, 4314, 12528, 11194>>,
       <<-58, 1339, 16108, 3589, 2257>>, <<-58, 1339, 11520, 9031, 3465>>, <<-58, 1339, 6935, 12421, 10846>>,
       <<-58, 1339, 2353, 13711, 5224>>, <<-58, 1338, 14158, 12851, 1366>>, <<-58, 1338, 9582, 9791, 15216>>,
       <<-58, 1338, 5009, 4484, 14738>>, <<-58, 1338, 438, 13265, 1832>>, <<-58, 1337, 12255, 3315, 12338>>,
       <<-58, 1337, 7690, 7356, 1337>>, <<-58, 1337, 3128, 8953, 7000>>, <<-58, 1336, 14953, 8059, 3117>>,
       <<-58, 1336, 10397, 4624, 13794>>, <<-58, 1336, 5843, 14985, 15141>>, <<-58, 1336, 1293, 6326, 807>>,
       <<-58, 1335, 13129, 11364, 14744>>, <<-58, 1335, 8584, 13670, 3754>>, <<-58, 1335, 4042, 13193, 14090>>,
       <<-58, 1334, 15887, 9887, 11231>>, <<-58, 1334, 11351, 3703, 10953>>, <<-58, 1334, 6817, 10977, 13789>>,
       <<-58, 1334, 2286, 15278, 5031>>, <<-58, 1333, 14143, 173, 3874>>, <<-58, 1333, 9617, 14766, 14265>>,
       <<-58, 1333, 5095, 9859, 8518>>, <<-58, 1333, 576, 1787, 9231>>, <<-58, 1332, 12443, 6887, 7361>>,
       <<-58, 1332, 7929, 8727, 11378>>, <<-58, 1332, 3418, 7260, 14494>>, <<-58, 1331, 15294, 2439, 11043>>,
       <<-58, 1331, 10788, 10600, 12863>>, <<-58, 1331, 6285, 15313, 147>>, <<-58, 1331, 1786, 145, 3352>>,
       <<-58, 1330, 13672, 14202, 4901>>, <<-58, 1330, 9178, 8285, 4713>>, <<-58, 1330, 4686, 15115, 3818>>,
       <<-58, 1330, 198, 1877, 4353>>, <<-58, 1329, 12096, 1292, 9564>>, <<-58, 1329, 7612, 13314, 7417>>,
       <<-58, 1329, 3132, 5128, 3364>>, <<-58, 1328, 15038, 9455, 3956>>, <<-58, 1328, 10563, 9865, 461>>,
       <<-58, 1328, 6091, 6311, 1626>>, <<-58, 1328, 1621, 15131, 910>>, <<-58, 1327, 13539, 3510, 9245>>,
       <<-58, 1327, 9075, 4171, 5889>>, <<-58, 1327, 4614, 683, 3955>>, <<-58, 1327, 155, 9384, 1256>>,
       <<-58, 1326, 12083, 13843, 13078>>, <<-58, 1326, 7630, 14016, 6634>>, <<-58, 1326, 3180, 9855, 15753>>,
       <<-58, 1325, 15117, 1316, 9808>>, <<-58, 1325, 10672, 4736, 8400>>, <<-58, 1325, 6230, 3685, 15820>>,
       <<-58, 1325, 1790, 14503, 4664>>, <<-58, 1324, 13738, 4374, 14134>>, <<-58, 1324, 9304, 6023, 2579>>,
       <<-58, 1324, 4873, 3018, 11337>>, <<-58, 1324, 444, 11700, 889>>, <<-58, 1323, 12402, 15637, 14700>>,
       <<-58, 1323, 7979, 14786, 15373>>, <<-58, 1323, 3559, 9101, 15725>>, <<-58, 1322, 15525, 14921, 13243>>,
       <<-58, 1322, 11110, 15817, 6470>>, <<-58, 1322, 6698, 11743, 11385>>, <<-58, 1322, 2289, 2655, 12252>>,
       <<-58, 1321, 14266, 4892, 10766>>, <<-58, 1321, 9862, 2025, 9670>>, <<-58, 1321, 5460, 10393, 12752>>,
       <<-58, 1321, 1061, 13568, 8459>>, <<-58, 1320, 13049, 11505, 2663>>, <<-58, 1320, 8656, 4159, 2277>>,
       <<-58, 1320, 4265, 7869, 15250>>, <<-58, 1319, 16261, 6209, 1416>>, <<-58, 1319, 11875, 15516, 3560>>,
       <<-58, 1319, 7493, 2978, 16352>>, <<-58, 1319, 3113, 1321, 2718>>, <<-58, 1318, 15119, 10498, 8537>>,
       <<-58, 1318, 10744, 14082, 15176>>, <<-58, 1318, 6372, 12030, 5025>>, <<-58, 1318, 2003, 4296, 10653>>,
       <<-58, 1317, 14020, 7222, 109>>, <<-58, 1317, 9656, 4378, 7999>>, <<-58, 1317, 5294, 12106, 4409>>,
       <<-58, 1317, 935, 13977, 9595>>, <<-58, 1316, 12963, 9948, 12054>>, <<-58, 1316, 8609, 16360, 1297>>,
       <<-58, 1316, 4259, 400, 611>>, <<-58, 1315, 16294, 11177, 1526>>, <<-58, 1315, 11948, 15879, 12958>>,
       <<-58, 1315, 7605, 14464, 12061>>, <<-58, 1315, 3265, 6888, 9760>>, <<-58, 1314, 15311, 9492, 1594>>,
       <<-58, 1314, 10976, 5848, 487>>, <<-58, 1314, 6643, 12297, 3976>>, <<-58, 1314, 2313, 12412, 10590>>,
       <<-58, 1313, 14370, 6151, 3471>>, <<-58, 1313, 10045, 9853, 15902>>, <<-58, 1313, 5723, 7094, 237>>,
       <<-58, 1313, 1403, 14212, 8120>>, <<-58, 1312, 13470, 14782, 10263>>, <<-58, 1312, 9156, 8761, 11131>>,
       <<-58, 1312, 4844, 12490, 16168>>, <<-58, 1312, 535, 9543, 15418>>, <<-58, 1311, 12612, 16261, 16287>>,
       <<-58, 1311, 8308, 16218, 10774>>, <<-58, 1311, 4007, 9371, 8237>>, <<-58, 1310, 16092, 12062, 2626>>,
       <<-58, 1310, 11796, 7864, 5243>>, <<-58, 1310, 7502, 13119, 11980>>, <<-58, 1310, 3211, 11402, 3311>>,
       <<-58, 1309, 15307, 2669, 9830>>, <<-58, 1309, 11021, 3263, 13943>>, <<-58, 1309, 6737, 13142, 15405>>,
       <<-58, 1309, 2456, 15880, 14931>>, <<-58, 1308, 14562, 11435, 14195>>, <<-58, 1308, 10286, 16149, 15832>>,
       <<-58, 1308, 6013, 13597, 7046>>, <<-58, 1308, 1743, 3736, 8765>>, <<-58, 1307, 13859, 2909, 10104>>,
       <<-58, 1307, 9593, 11075, 1125>>, <<-58, 1307, 5330, 11807, 5611>>, <<-58, 1307, 1070, 5064, 15524>>,
       <<-58, 1306, 13196, 7190, 7387>>, <<-58, 1306, 8941, 1758, 7820>>, <<-58, 1306, 4688, 5111, 11619>>,
       <<-58, 1306, 438, 824, 14519>>, <<-58, 1305, 12574, 5240, 13195>>, <<-58, 1305, 8329, 1934, 5260>>,
       <<-58, 1305, 4086, 7248, 5648>>, <<-58, 1304, 16230, 4757, 13842>>, <<-58, 1304, 11992, 10805, 13873>>,
       <<-58, 1304, 7757, 8967, 7089>>, <<-58, 1304, 3524, 15585, 12150>>, <<-58, 1303, 15678, 14235, 15877>>,
       <<-58, 1303, 11451, 4877, 6015>>, <<-58, 1303, 7226, 3853, 4003>>, <<-58, 1303, 3003, 11122, 15818>>,
       <<-58, 1302, 15167, 10261, 15590>>, <<-58, 1302, 10950, 1229, 11138>>, <<-58, 1302, 6735, 369, 11198>>,
       <<-58, 1302, 2522, 7641, 9036>>, <<-58, 1301, 14696, 6620, 15220>>, <<-58, 1301, 10488, 13651, 8461>>,
       <<-58, 1301, 6283, 12309, 1150>>, <<-58, 1301, 2081, 2553, 6587>>, <<-58, 1300, 14265, 728, 6213>>,
       <<-58, 1300, 10067, 6793, 15144>>, <<-58, 1300, 5872, 4326, 246>>, <<-58, 1300, 1679, 9668, 11212>>,
       <<-58, 1299, 13873, 6398, 331>>, <<-58, 1299, 9685, 10858, 2711>>, <<-58, 1299, 5500, 6625, 5208>>,
       <<-58, 1299, 1317, 10043, 11959>>, <<-58, 1298, 13521, 4689, 11611>>, <<-58, 1298, 9343, 6907, 10090>>,
       <<-58, 1298, 5168, 273, 14215>>, <<-58, 1298, 995, 1132, 15308>>, <<-58, 1297, 13208, 9445, 5584>>,
       <<-58, 1297, 9040, 8787, 10912>>, <<-58, 1297, 4874, 15504, 8893>>, <<-58, 1297, 711, 13172, 10784>>,
       <<-58, 1296, 12935, 1752, 12337>>, <<-58, 1296, 8776, 13973, 10189>>, <<-58, 1296, 4621, 644, 1853>>,
       <<-58, 1296, 467, 10877, 2107>>, <<-58, 1295, 12700, 11865, 10219>>, <<-58, 1295, 8552, 3570, 9950>>,
       <<-58, 1295, 4406, 2337, 2319>>, <<-58, 1295, 262, 8126, 5598>>, <<-58, 1294, 12505, 4515, 6165>>,
       <<-58, 1294, 8366, 7849, 7647>>, <<-58, 1294, 4230, 1705, 14543>>, <<-58, 1294, 96, 2429, 15829>>,
       <<-58, 1293, 12348, 9983, 1349>>, <<-58, 1293, 8219, 7942, 10961>>, <<-58, 1293, 4092, 12654, 3462>>,
       <<-58, 1292, 16352, 7695, 4048>>, <<-58, 1292, 12230, 9411, 6004>>, <<-58, 1292, 8111, 1380, 3470>>,
       <<-58, 1292, 3993, 16331, 7829>>, <<-58, 1291, 16263, 5074, 14930>>, <<-58, 1291, 12151, 340, 5094>>,
       <<-58, 1291, 8041, 2089, 8641>>, <<-58, 1291, 3933, 10284, 7590>>, <<-58, 1290, 16212, 8503, 1194>>,
       <<-58, 1290, 12109, 13091, 5932>>, <<-58, 1290, 8009, 7627, 6364>>, <<-58, 1290, 3911, 8457, 4274>>,
       <<-58, 1289, 16199, 15543, 2292>>, <<-58, 1289, 12106, 12463, 3883>>, <<-58, 1289, 8015, 15563, 13356>>,
       <<-58, 1289, 3927, 8423, 3087>>, <<-58, 1288, 16225, 7387, 11825>>, <<-58, 1288, 12141, 12419, 13617>>,
       <<-58, 1288, 8060, 7097, 16111>>, <<-58, 1288, 3981, 7768, 11403>>, <<-58, 1287, 16288, 14394, 8805>>,
       <<-58, 1287, 12214, 10554, 2071>>, <<-58, 1287, 8142, 12594, 2169>>, <<-58, 1287, 4073, 4093, 4505>>,
       <<-58, 1287, 6, 1398, 5315>>, <<-58, 1286, 12325, 4472, 1654>>, <<-58, 1286, 8262, 13277, 7784>>,
       <<-58, 1286, 4202, 11393, 6020>>, <<-58, 1286, 144, 15166, 12261>>, <<-58, 1285, 12473, 8176, 10460>>,
       <<-58, 1285, 8420, 6770, 1766>>, <<-58, 1285, 4369, 10910, 4528>>, <<-58, 1285, 321, 4176, 5140>>,
       <<-58, 1284, 12659, 2915, 7193>>, <<-58, 1284, 8615, 7090, 15086>>, <<-58, 1284, 4574, 282, 1262>>,
       <<-58, 1284, 534, 15220, 4504>>, <<-58, 1283, 12882, 2716, 15252>>, <<-58, 1283, 8847, 11887, 8365>>,
       <<-58, 1283, 4815, 9927, 8659>>, <<-58, 1283, 785, 13184, 8982>>, <<-58, 1282, 13142, 5238, 2986>>,
       <<-58, 1282, 9117, 2436, 1501>>, <<-58, 1282, 5094, 4741, 16160>>, <<-58, 1282, 1073, 12119, 10238>>,
       <<-58, 1281, 13439, 8148, 13342>>, <<-58, 1281, 9423, 9177, 6718>>, <<-58, 1281, 5409, 15169, 5177>>,
       <<-58, 1281, 1398, 9704, 7933>>, <<-58, 1280, 13773, 9130, 14992>>, <<-58, 1280, 9766, 13412, 10764>>,
       <<-58, 1280, 5762, 6129, 13212>>, <<-58, 1280, 1760, 3630, 8320>>, <<-58, 1279, 14144, 5878, 15621>>,
       <<-58, 1279, 10146, 12839, 6281>>, <<-58, 1279, 6151, 8092, 1399>>, <<-58, 1279, 2158, 7985, 6469>>,
       <<-58, 1278, 14551, 12483, 11382>>, <<-58, 1278, 10563, 5167, 6805>>, <<-58, 1278, 6577, 2385, 565>>,
       <<-58, 1278, 2593, 4101, 1266>>, <<-58, 1277, 14995, 10280, 1899>>, <<-58, 1277, 11016, 4502, 12614>>,
       <<-58, 1277, 7039, 3117, 11560>>, <<-58, 1277, 3064, 6089, 10427>>, <<-58, 1276, 15475, 13383, 5289>>,
       <<-58, 1276, 11505, 8579, 9369>>, <<-58, 1276, 7537, 8027, 3889>>, <<-58, 1276, 3571, 11691, 3604>>,
       <<-58, 1275, 15992, 3152, 7647>>, <<-58, 1275, 12030, 15143, 15912>>, <<-58, 1275, 8071, 14862, 12671>>,
       <<-58, 1275, 4115, 2273, 15723>>, <<-58, 1275, 160, 10110, 10856>>, <<-58, 1274, 12592, 5570, 999>>,
       <<-58, 1274, 8642, 5001, 6221>>, <<-58, 1274, 4694, 8369, 14576>>, <<-58, 1274, 748, 15640, 14871>>,
       <<-58, 1273, 13189, 10395, 13048>>, <<-58, 1273, 9248, 8983, 15800>>, <<-58, 1273, 5309, 11370, 14185>>,
       <<-58, 1273, 1373, 1138, 7>>, <<-58, 1272, 13822, 11018, 14971>>, <<-58, 1272, 9890, 8211, 3221>>,
       <<-58, 1272, 5960, 9064, 7949>>, <<-58, 1272, 2032, 13544, 7554>>, <<-58, 1271, 14491, 5232, 13944>>,
       <<-58, 1271, 10568, 479, 7000>>, <<-58, 1271, 6646, 15634, 109>>, <<-58, 1271, 2728, 1510, 7396>>,
       <<-58, 1270, 15195, 7226, 10952>>, <<-58, 1270, 11280, 16364, 9991>>, <<-58, 1270, 7368, 12506, 4458>>,
       <<-58, 1270, 3458, 12001, 11415>>, <<-58, 1269, 15934, 14816, 15888>>, <<-58, 1269, 12029, 4534, 3632>>,
       <<-58, 1269, 8125, 13887, 10285>>, <<-58, 1269, 4224, 10075, 6674>>, <<-58, 1269, 325, 9447, 13506>>,
       <<-58, 1268, 12812, 11971, 3060>>, <<-58, 1268, 8918, 1227, 13877>>, <<-58, 1268, 5025, 9952, 3298>>,
       <<-58, 1268, 1135, 5342, 11308>>, <<-58, 1267, 13631, 3749, 13074>>, <<-58, 1267, 9745, 5140, 869>>,
       <<-58, 1267, 5861, 9480, 449>>, <<-58, 1267, 1980, 352, 5520>>, <<-58, 1266, 14484, 10491, 10503>>,
       <<-58, 1266, 10607, 7096, 10534>>, <<-58, 1266, 6732, 6518, 1461>>, <<-58, 1266, 2859, 8722, 12613>>,
       <<-58, 1265, 15372, 13677, 8493>>, <<-58, 1265, 11504, 4965, 3465>>, <<-58, 1265, 7637, 15320, 12603>>,
       <<-58, 1265, 3773, 11943, 2534>>, <<-58, 1264, 16295, 11183, 6128>>, <<-58, 1264, 12435, 13008, 7808>>,
       <<-58, 1264, 8578, 1001, 9083>>, <<-58, 1264, 4722, 7897, 12166>>, <<-58, 1264, 869, 896, 3587>>,
       <<-58, 1263, 13401, 12732, 3343>>, <<-58, 1263, 9552, 10604, 15747>>, <<-58, 1263, 5705, 10865, 13042>>,
       <<-58, 1263, 1860, 13482, 932>>, <<-58, 1262, 14402, 2037, 2206>>, <<-58, 1262, 10561, 9266, 7574>>,
       <<-58, 1262, 6723, 2369, 8442>>, <<-58, 1262, 2886, 14081, 13291>>, <<-58, 1261, 15436, 11602, 14909>>,
       <<-58, 1261, 11604, 11284, 6773>>, <<-58, 1261, 7774, 13093, 15817>>, <<-58, 1261, 3947, 615, 4126>>,
       <<-58, 1261, 121, 6584, 7>>, <<-58, 1260, 12681, 14583, 16068>>, <<-58, 1260, 8860, 8199, 64>>,
       <<-58, 1260, 5041, 3780, 15124>>, <<-58, 1260, 1224, 1297, 10366>>, <<-58, 1259, 13793, 717, 1127>>,
       <<-58, 1259, 9980, 2007, 3423>>, <<-58, 1259, 6169, 5136, 1180>>, <<-58, 1259, 2360, 10071, 11770>>,
       <<-58, 1258, 14938, 398, 4087>>, <<-58, 1258, 11133, 8851, 13236>>, <<-58, 1258, 7331, 2632, 9462>>,
       <<-58, 1258, 3530, 14476, 12833>>, <<-58, 1257, 16116, 11584, 11319>>, <<-58, 1257, 12320, 10308, 9947>>,
       <<-58, 1257, 8526, 10616, 14412>>, <<-58, 1257, 4734, 12477, 14692>>, <<-58, 1257, 944, 15860, 1433>>,
       <<-58, 1256, 13541, 4347, 15101>>, <<-58, 1256, 9755, 10677, 14903>>, <<-58, 1256, 5972, 2050, 9863>>,
       <<-58, 1256, 2190, 11202, 9670>>, <<-58, 1255, 14795, 5334, 8287>>, <<-58, 1255, 11018, 799, 340>>,
       <<-58, 1255, 7242, 13948, 13880>>, <<-58, 1255, 3469, 11984, 12083>>, <<-58, 1254, 16082, 11259, 7931>>,
       <<-58, 1254, 12313, 11741, 15065>>, <<-58, 1254, 8546, 13400, 15012>>, <<-58, 1254, 4781, 16205, 6335>>,
       <<-58, 1254, 1019, 3740, 4637>>, <<-58, 1253, 13642, 8742, 9786>>, <<-58, 1253, 9883, 14797, 5918>>,
       <<-58, 1253, 6127, 5489, 10588>>, <<-58, 1253, 2372, 13556, 9227>>, <<-58, 1252, 15004, 6199, 4303>>,
       <<-58, 1252, 11253, 16154, 15311>>, <<-58, 1252, 7505, 10624, 13240>>, <<-58, 1252, 3759, 5962, 2491>>,
       <<-58, 1252, 15, 2136, 4494>>, <<-58, 1251, 12656, 15500, 8550>>, <<-58, 1251, 8916, 13256, 4605>>,
       <<-58, 1251, 5178, 11756, 16009>>, <<-58, 1251, 1442, 10972, 1218>>, <<-58, 1250, 14092, 10871, 1245>>,
       <<-58, 1250, 10360, 11423, 8588>>, <<-58, 1250, 6630, 12598, 16380>>, <<-58, 1250, 2902, 14367, 2006>>,
       <<-58, 1249, 15561, 313, 9020>>, <<-58, 1249, 11837, 3175, 16074>>, <<-58, 1249, 8115, 6540, 2450>>,
       <<-58, 1249, 4395, 10375, 13598>>, <<-58, 1249, 677, 14652, 13677>>, <<-58, 1248, 13346, 2957, 242>>,
       <<-58, 1248, 9632, 8026, 4246>>, <<-58, 1248, 5920, 13446, 8114>>, <<-58, 1248, 2211, 2803, 11281>>,
       <<-58, 1247, 14887, 8835, 13808>>, <<-58, 1247, 11181, 15128, 16378>>, <<-58, 1247, 7478, 5269, 3913>>,
       <<-58, 1247, 3776, 11994, 11109>>, <<-58, 1247, 77, 2507, 7746>>, <<-58, 1246, 12763, 9545, 13374>>,
       <<-58, 1246, 9068, 311, 15397>>, <<-58, 1246, 5374, 7544, 1833>>, <<-58, 1246, 1682, 14828, 10471>>,
       <<-58, 1245, 14377, 5751, 14176>>, <<-58, 1245, 10689, 13052, 2816>>, <<-58, 1245, 7004, 3931, 16021>>,
       <<-58, 1245, 3320, 11129, 12114>>, <<-58, 1244, 16023, 1847, 15567>>, <<-58, 1244, 12343, 8825, 2308>>,
       <<-58, 1244, 8665, 15647, 14413>>, <<-58, 1244, 4990, 5902, 12646>>, <<-58, 1244, 1316, 12328, 7528>>,
       <<-58, 1243, 14029, 2127, 10190>>, <<-58, 1243, 10359, 8038, 15981>>, <<-58, 1243, 6691, 13649, 4474>>,
       <<-58, 1243, 3026, 2545, 4995>>, <<-58, 1242, 15746, 7465, 14706>>, <<-58, 1242, 12084, 11997, 14986>>,
       <<-58, 1242, 8424, 16112, 4199>>, <<-58, 1242, 4767, 3395, 14075>>, <<-58, 1242, 1111, 6587, 11410>>,
       <<-58, 1241, 13841, 9274, 12747>>, <<-58, 1241, 10189, 11428, 2458>>, <<-58, 1241, 6539, 13018, 14664>>,
       <<-58, 1241, 2891, 14018, 2161>>, <<-58, 1240, 15629, 14397, 256>>, <<-58, 1240, 11985, 14126, 12084>>,
       <<-58, 1240, 8343, 13178, 8604>>, <<-58, 1240, 4703, 11523, 10515>>, <<-58, 1240, 1065, 9133, 6342>>,
       <<-58, 1239, 13813, 5979, 1579>>, <<-58, 1239, 10179, 2032, 2312>>, <<-58, 1239, 6546, 13647, 15211>>,
       <<-58, 1239, 2916, 8029, 14767>>, <<-58, 1238, 15672, 1533, 8823>>, <<-58, 1238, 12045, 10514, 5805>>,
       <<-58, 1238, 8421, 2175, 14725>>, <<-58, 1238, 4798, 9257, 12408>>, <<-58, 1238, 1177, 15347, 9030>>,
       <<-58, 1237, 13943, 4032, 15344>>, <<-58, 1237, 10326, 8053, 9920>>, <<-58, 1237, 6711, 10997, 4670>>,
       <<-58, 1237, 3098, 12835, 12088>>, <<-58, 1236, 15871, 13540, 12472>>, <<-58, 1236, 12262, 13084, 3085>>,
       <<-58, 1236, 8655, 11437, 14529>>, <<-58, 1236, 5050, 8573, 12448>>, <<-58, 1236, 1447, 4463, 12208>>,
       <<-58, 1235, 14229, 15463, 13364>>, <<-58, 1235, 10630, 8777, 16044>>, <<-58, 1235, 7033, 762, 4561>>,
       <<-58, 1235, 3437, 7772, 12950>>, <<-58, 1234, 16227, 13397, 10278>>, <<-58, 1234, 12636, 1224, 15333>>,
       <<-58, 1234, 9046, 3994, 14701>>, <<-58, 1234, 5458, 5295, 11918>>, <<-58, 1234, 1872, 5099, 11086>>,
       <<-58, 1233, 14672, 3379, 485>>, <<-58, 1233, 11090, 106, 1729>>, <<-58, 1233, 7509, 11637, 4223>>,
       <<-58, 1233, 3931, 5176, 14321>>, <<-58, 1233, 354, 13465, 6167>>, <<-58, 1232, 13164, 3707, 3618>>,
       <<-58, 1232, 9591, 8642, 14705>>, <<-58, 1232, 6020, 11860, 15249>>, <<-58, 1232, 2451, 13333, 14396>>,
       <<-58, 1231, 15268, 13034, 5464>>, <<-58, 1231, 11703, 10934, 15095>>, <<-58, 1231, 8140, 7008, 4949>>,
       <<-58, 1231, 4579, 1227, 2775>>, <<-58, 1231, 1019, 9948, 4107>>, <<-58, 1230, 13846, 376, 5030>>,
       <<-58, 1230, 10290, 5252, 2180>>, <<-58, 1230, 6736, 8164, 9128>>, <<-58, 1230, 3184, 9086, 7225>>,
       <<-58, 1229, 16018, 7990, 11138>>, <<-58, 1229, 12470, 4850, 3315>>, <<-58, 1229, 8923, 16021, 15901>>,
       <<-58, 1229, 5379, 8710, 16051>>, <<-58, 1229, 1836, 15658, 4232>>, <<-58, 1228, 14680, 4068, 14224>>,
       <<-58, 1228, 11141, 6683, 14813>>, <<-58, 1228, 7604, 7092, 8097>>, <<-58, 1228, 4069, 5267, 13097>>,
       <<-58, 1228, 536, 1183, 224>>, <<-58, 1227, 13388, 11195, 5964>>, <<-58, 1227, 9859, 2510, 1805>>,
       <<-58, 1227, 6331, 7868, 8927>>, <<-58, 1227, 2805, 10859, 16277>>, <<-58, 1226, 15665, 11457, 13339>>,
       <<-58, 1226, 12143, 9635, 6517>>, <<-58, 1226, 8623, 5366, 2748>>, <<-58, 1226, 5104, 15007, 9503>>,
       <<-58, 1226, 1588, 5765, 2019>>, <<-58, 1225, 14457, 10380, 5216>>, <<-58, 1225, 10944, 12442, 11778>>,
       <<-58, 1225, 7433, 11925, 14918>>, <<-58, 1225, 3924, 8803, 8379>>, <<-58, 1225, 417, 3049, 2818>>,
       <<-58, 1224, 13295, 11020, 9418>>, <<-58, 1224, 9791, 16307, 7121>>, <<-58, 1224, 6290, 2499, 8164>>,
       <<-58, 1224, 2790, 2338, 8926>>, <<-58, 1223, 15675, 15798, 6309>>, <<-58, 1223, 12179, 10084, 14123>>,
       <<-58, 1223, 8685, 1555, 13934>>, <<-58, 1223, 5192, 6569, 4212>>, <<-58, 1223, 1701, 8715, 334>>,
       <<-58, 1222, 14596, 7967, 1813>>, <<-58, 1222, 11109, 4299, 8682>>, <<-58, 1222, 7623, 14070, 5107>>,
       <<-58, 1222, 4140, 4485, 8541>>, <<-58, 1222, 658, 8287, 4188>>, <<-58, 1221, 13562, 9065, 10533>>,
       <<-58, 1221, 10084, 6794, 13810>>, <<-58, 1221, 6608, 1449, 769>>, <<-58, 1221, 3133, 9386, 7825>>,
       <<-58, 1220, 16044, 14197, 6369>>, <<-58, 1220, 12573, 15856, 1073>>, <<-58, 1220, 9104, 14336, 13506>>,
       <<-58, 1220, 5637, 9614, 210>>, <<-58, 1220, 2172, 1662, 158>>, <<-58, 1219, 15092, 6839, 3678>>,
       <<-58, 1219, 11630, 8736, 1610>>, <<-58, 1219, 8170, 7327, 1681>>, <<-58, 1219, 4712, 2586, 12130>>,
       <<-58, 1219, 1255, 10873, 8929>>, <<-58, 1218, 14184, 15778, 1326>>, <<-58, 1218, 10732, 890, 15457>>,
       <<-58, 1218, 7280, 15338, 12426>>, <<-58, 1218, 3831, 9944, 2990>>, <<-58, 1218, 384, 1065, 14794>>,
       <<-58, 1217, 13322, 5062, 10447>>, <<-58, 1217, 9878, 5525, 2211>>, <<-58, 1217, 6436, 2428, 2848>>,
       <<-58, 1217, 2995, 12130, 9235>>, <<-58, 1216, 15941, 1839, 2362>>, <<-58, 1216, 12504, 4296, 12869>>,
       <<-58, 1216, 9069, 3094, 6358>>, <<-58, 1216, 5635, 14590, 14460>>, <<-58, 1216, 2204, 5993, 3769>>,
       <<-58, 1215, 15158, 10044, 6905>>, <<-58, 1215, 11730, 10335, 7831>>, <<-58, 1215, 8304, 6841, 7390>>,
       <<-58, 1215, 4879, 15921, 6912>>, <<-58, 1215, 1457, 4782, 8222>>, <<-58, 1214, 14420, 6167, 13633>>,
       <<-58, 1214, 11001, 3668, 9565>>, <<-58, 1214, 7583, 13643, 15696>>, <<-58, 1214, 4168, 3301, 3038>>,
       <<-58, 1214, 754, 5383, 8627>>, <<-58, 1213, 13726, 3482, 4452>>, <<-58, 1213, 10315, 13956, 12136>>,
       <<-58, 1213, 6907, 4014, 4639>>, <<-58, 1213, 3500, 6398, 4556>>, <<-58, 1213, 95, 4700, 2196>>,
       <<-58, 1212, 13075, 15279, 4738>>, <<-58, 1212, 9674, 5343, 3457>>, <<-58, 1212, 6274, 7635, 6495>>,
       <<-58, 1212, 2876, 5747, 6089>>, <<-58, 1211, 15863, 16038, 11342>>, <<-58, 1211, 12469, 5716, 15451>>,
       <<-58, 1211, 9076, 7525, 12093>>, <<-58, 1211, 5685, 5056, 11803>>, <<-58, 1211, 2295, 14669, 9214>>,
       <<-58, 1210, 15292, 3571, 15816>>, <<-58, 1210, 11906, 4507, 10808>>, <<-58, 1210, 8522, 1068, 6631>>,
       <<-58, 1210, 5139, 9613, 16202>>, <<-58, 1210, 1758, 13736, 3756>>, <<-58, 1209, 14763, 13410, 15924>>,
       <<-58, 1209, 11386, 8614, 1504>>, <<-58, 1209, 8010, 15705, 8068>>, <<-58, 1209, 4637, 1893, 1740>>,
       <<-58, 1209, 1264, 16304, 14649>>, <<-58, 1208, 14278, 9764, 13858>>, <<-58, 1208, 10909, 15016, 16049>>,
       <<-58, 1208, 7542, 15653, 5604>>, <<-58, 1208, 4177, 11650, 140>>, <<-58, 1208, 814, 2983, 1358>>,
       <<-58, 1207, 13836, 6012, 11422>>, <<-58, 1207, 10476, 4331, 193>>, <<-58, 1207, 7117, 14298, 3534>>,
       <<-58, 1207, 3761, 3122, 8618>>, <<-58, 1207, 406, 3548, 3081>>, <<-58, 1206, 13436, 15551, 7787>>,
       <<-58, 1206, 10085, 6340, 11297>>, <<-58, 1206, 6735, 8660, 2630>>, <<-58, 1206, 3387, 6102, 4033>>,
       <<-58, 1206, 40, 15027, 5445>>, <<-58, 1205, 13080, 2643, 13647>>, <<-58, 1205, 9737, 1696, 3110>>,
       <<-58, 1205, 6395, 12160, 14297>>, <<-58, 1205, 3056, 1246, 6209>>, <<-58, 1204, 16102, 1697, 3837>>,
       <<-58, 1204, 12765, 13489, 16245>>, <<-58, 1204, 9431, 3833, 3796>>, <<-58, 1204, 6098, 5471, 9231>>,
       <<-58, 1204, 2767, 1997, 10204>>, <<-58, 1203, 15821, 9772, 1207>>, <<-58, 1203, 12493, 12387, 9951>>,
       <<-58, 1203, 9167, 9820, 15447>>, <<-58, 1203, 5843, 2048, 13539>>, <<-58, 1203, 2520, 5432, 520>>,
       <<-58, 1202, 15583, 3563, 5901>>, <<-58, 1202, 12263, 12803, 10489>>, <<-58, 1202, 8946, 361, 11921>>,
       <<-58, 1202, 5629, 15366, 8282>>, <<-58, 1202, 2315, 8642, 14488>>, <<-58, 1201, 15386, 12935, 13130>>,
       <<-58, 1201, 12075, 11838, 3629>>, <<-58, 1201, 8766, 5327, 2235>>, <<-58, 1201, 5458, 9763, 9256>>,
       <<-58, 1201, 2152, 8740, 9058>>, <<-58, 1200, 15232, 2235, 2835>>, <<-58, 1200, 11929, 6608, 8606>>,
       <<-58, 1200, 8628, 5453, 12062>>, <<-58, 1200, 5328, 15131, 15717>>, <<-58, 1200, 2031, 2852, 6144>>,
       <<-58, 1199, 15119, 1360, 3118>>, <<-58, 1199, 11824, 10632, 10471>>, <<-58, 1199, 8531, 14262, 16089>>,
       <<-58, 1199, 5240, 12228, 8292>>, <<-58, 1199, 1951, 4506, 8607>>, <<-58, 1198, 15047, 7458, 6226>>,
       <<-58, 1198, 11761, 4677, 7161>>, <<-58, 1198, 8476, 12525, 1474>>, <<-58, 1198, 5193, 14594, 12428>>,
       <<-58, 1198, 1912, 10863, 14568>>, <<-58, 1197, 15017, 1309, 15637>>, <<-58, 1197, 11739, 2294, 7428>>,
       <<-58, 1197, 8462, 13794, 14931>>, <<-58, 1197, 5188, 3020, 14415>>, <<-58, 1197, 1915, 2717, 15346>>,
       <<-58, 1196, 15027, 12863, 11236>>, <<-58, 1196, 11758, 667, 12408>>, <<-58, 1196, 8489, 15259, 13229>>,
       <<-58, 1196, 5223, 7465, 8494>>, <<-58, 1196, 1958, 10030, 9808>>, <<-58, 1195, 15079, 6548, 12816>>,
       <<-58, 1195, 11817, 13381, 13590>>, <<-58, 1195, 8557, 14123, 8625>>, <<-58, 1195, 5299, 8751, 11226>>,
       <<-58, 1195, 2042, 13628, 2350>>, <<-58, 1194, 15171, 12346, 12532>>, <<-58, 1194, 11918, 4885, 7190>>,
       <<-58, 1194, 8666, 7606, 1317>>, <<-58, 1194, 5416, 4102, 10325>>, <<-58, 1194, 2167, 10737, 897>>,
       <<-58, 1193, 15304, 11103, 5667>>, <<-58, 1193, 12059, 5179, 8541>>, <<-58, 1193, 8815, 9327, 10222>>,
       <<-58, 1193, 5573, 7141, 11834>>, <<-58, 1193, 2332, 14983, 14917>>, <<-58, 1192, 15478, 64, 5042>>,
       <<-58, 1192, 12240, 11513, 965>>, <<-58, 1192, 9005, 156, 5473>>, <<-58, 1192, 5770, 15124, 5383>>,
       <<-58, 1192, 2538, 7243, 4310>>, <<-58, 1191, 15691, 9259, 6282>>, <<-58, 1191, 12462, 4766, 15739>>,
       <<-58, 1191, 9234, 10128, 4766>>, <<-58, 1191, 6008, 8937, 11395>>, <<-58, 1191, 2784, 1173, 8533>>,
       <<-58, 1190, 15945, 3198, 2263>>, <<-58, 1190, 12723, 14989, 15465>>, <<-58, 1190, 9504, 3759, 5889>>,
       <<-58, 1190, 6286, 2252, 13615>>, <<-58, 1190, 3069, 10448, 13594>>, <<-58, 1189, 16238, 11941, 13952>>,
       <<-58, 1189, 13025, 6710, 6837>>, <<-58, 1189, 9813, 11117, 1189>>, <<-58, 1189, 6603, 8756, 6350>>,
       <<-58, 1189, 3394, 15990, 15685>>, <<-58, 1189, 188, 31, 6579>>, <<-58, 1188, 13366, 10008, 5972>>,
       <<-58, 1188, 10162, 13132, 8437>>, <<-58, 1188, 6960, 9382, 8953>>, <<-58, 1188, 3759, 15121, 2899>>,
       <<-58, 1188, 560, 13943, 2437>>, <<-58, 1187, 13747, 5827, 3748>>, <<-58, 1187, 10551, 7136, 3413>>,
       <<-58, 1187, 7357, 1464, 14795>>, <<-58, 1187, 4164, 5176, 2504>>, <<-58, 1187, 973, 1864, 13468>>,
       <<-58, 1186, 14167, 7893, 13094>>, <<-58, 1186, 10979, 6857, 16337>>, <<-58, 1186, 7792, 15120, 5779>>,
       <<-58, 1186, 4607, 16275, 13552>>, <<-58, 1186, 1424, 10303, 6646>>, <<-58, 1185, 14626, 13566, 1597>>,
       <<-58, 1185, 11446, 9658, 15337>>, <<-58, 1185, 8267, 14944, 16038>>, <<-58, 1185, 5090, 13019, 5033>>,
       <<-58, 1185, 1915, 3861, 432>>, <<-58, 1184, 15125, 3833, 4352>>, <<-58, 1184, 11952, 12915, 2918>>,
       <<-58, 1184, 8781, 14701, 15411>>, <<-58, 1184, 5612, 9172, 12354>>, <<-58, 1184, 2444, 12690, 13809>>,
       <<-58, 1183, 15662, 8851, 7458>>, <<-58, 1183, 12497, 14017, 14142>>, <<-58, 1183, 9334, 11785, 5936>>,
       <<-58, 1183, 6173, 2133, 4454>>, <<-58, 1183, 3013, 1424, 15313>>, <<-58, 1182, 16238, 9639, 11748>>,
       <<-58, 1182, 13081, 10373, 147>>, <<-58, 1182, 9926, 3604, 3668>>, <<-58, 1182, 6772, 5696, 13084>>,
       <<-58, 1182, 3620, 246, 3169>>, <<-58, 1182, 469, 3615, 14616>>, <<-58, 1181, 13703, 15785, 6578>>,
       <<-58, 1181, 10556, 3966, 4131>>, <<-58, 1181, 7410, 905, 16343>>, <<-58, 1181, 4265, 6584, 3516>>,
       <<-58, 1181, 1122, 4596, 8249>>, <<-58, 1180, 14364, 11306, 7987>>, <<-58, 1180, 11224, 10309, 13319>>,
       <<-58, 1180, 8086, 1586, 2449>>, <<-58, 1180, 4949, 1499, 3108>>, <<-58, 1180, 1813, 10028, 10639>>,
       <<-58, 1179, 15063, 10770, 4376>>, <<-58, 1179, 11931, 3703, 13182>>, <<-58, 1179, 8800, 5193, 761>>,
       <<-58, 1179, 5670, 15217, 13111>>, <<-58, 1179, 2543, 989, 14687>>, <<-58, 1178, 15800, 11641, 3084>>,
       <<-58, 1178, 12675, 14383, 9040>>, <<-58, 1178, 9552, 9196, 14513>>, <<-58, 1178, 6430, 12445, 1837>>,
       <<-58, 1178, 3310, 7724, 2866>>, <<-58, 1178, 191, 11398, 676>>, <<-58, 1177, 13458, 7062, 11482>>,
       <<-58, 1177, 10342, 11082, 2717>>, <<-58, 1177, 7228, 7052, 7720>>, <<-58, 1177, 4115, 11337, 11047>>,
       <<-58, 1177, 1004, 7533, 14009>>, <<-58, 1176, 14278, 12005, 1898>>, <<-58, 1176, 11170, 8347, 9529>>,
       <<-58, 1176, 8063, 12925, 6547>>, <<-58, 1176, 4958, 9334, 12117>>, <<-58, 1176, 1854, 13939, 12999>>,
       <<-58, 1175, 15136, 10336, 12705>>, <<-58, 1175, 12035, 14889, 15114>>, <<-58, 1175, 8936, 11195, 8083>>,
       <<-58, 1175, 5838, 15617, 12601>>, <<-58, 1175, 2742, 11753, 870>>, <<-58, 1174, 16031, 15965, 10992>>,
       <<-58, 1174, 12938, 11851, 15892>>, <<-58, 1174, 9846, 15776, 5244>>, <<-58, 1174, 6756, 11335, 1851>>,
       <<-58, 1174, 3667, 14892, 12494>>, <<-58, 1174, 580, 10045, 11542>>, <<-58, 1173, 13878, 13158, 6499>>,
       <<-58, 1173, 10794, 7827, 5221>>, <<-58, 1173, 7711, 10416, 15929>>, <<-58, 1173, 4630, 4523, 14431>>,
       <<-58, 1173, 1550, 6512, 9662>>, <<-58, 1172, 14855, 16363, 10915>>, <<-58, 1172, 11779, 1289, 11453>>,
       <<-58, 1172, 8703, 10423, 4899>>, <<-58, 1172, 5629, 10977, 1614>>, <<-58, 1172, 2557, 2931, 12313>>,
       <<-58, 1171, 15870, 2651, 15302>>, <<-58, 1171, 12800, 10118, 5620>>, <<-58, 1171, 9732, 8927, 11432>>,
       <<-58, 1171, 6665, 15444, 12102>>, <<-58, 1171, 3600, 13266, 3731>>, <<-58, 1171, 537, 2372, 15542>>,
       <<-58, 1170, 13858, 15513, 11571>>, <<-58, 1170, 10798, 3517, 5360>>, <<-58, 1170, 7738, 15516, 10799>>,
       <<-58, 1170, 4681, 2340, 9362>>, <<-58, 1170, 1624, 13121, 15641>>, <<-58, 1169, 14953, 15073, 11809>>,
       <<-58, 1169, 11900, 8176, 13154>>, <<-58, 1169, 8848, 8796, 2546>>, <<-58, 1169, 5798, 528, 12354>>,
       <<-58, 1169, 2748, 16123, 9760>>, <<-58, 1168, 16085, 6409, 11442>>, <<-58, 1168, 13039, 4136, 1658>>,
       <<-58, 1168, 9994, 9283, 14163>>, <<-58, 1168, 6951, 5450, 1137>>, <<-58, 1168, 3909, 8999, 13411>>,
       <<-58, 1168, 869, 3530, 3853>>, <<-58, 1167, 14214, 5406, 7597>>, <<-58, 1167, 11176, 14609, 10967>>,
       <<-58, 1167, 8140, 14737, 632>>, <<-58, 1167, 5106, 5769, 12752>>, <<-58, 1167, 2073, 4073, 1911>>,
       <<-58, 1166, 15425, 9628, 4954>>, <<-58, 1166, 12395, 6032, 9914>>, <<-58, 1166, 9366, 9651, 5167>>,
       <<-58, 1166, 6339, 4081, 12193>>, <<-58, 1166, 3313, 5689, 3662>>, <<-58, 1166, 288, 14455, 1734>>,
       <<-58, 1165, 13649, 13976, 12524>>, <<-58, 1165, 10628, 4235, 9717>>, <<-58, 1165, 7608, 1597, 102>>,
       <<-58, 1165, 4589, 6042, 7190>>, <<-58, 1165, 1572, 1169, 5677>>, <<-58, 1164, 14940, 3343, 3362>>,
       <<-58, 1164, 11925, 12545, 8381>>, <<-58, 1164, 8912, 12373, 12820>>, <<-58, 1164, 5901, 2809, 9098>>,
       <<-58, 1164, 2891, 218, 6356>>, <<-58, 1163, 16266, 4581, 14066>>, <<-58, 1163, 13258, 15881, 9264>>,
       <<-58, 1163, 10253, 1331, 2090>>, <<-58, 1163, 7248, 10064, 3014>>, <<-58, 1163, 4245, 9294, 6454>>,
       <<-58, 1163, 1243, 15387, 7160>>, <<-58, 1162, 14627, 11941, 213>>, <<-58, 1162, 11628, 15320, 13790>>,
       <<-58, 1162, 8631, 9124, 10865>>, <<-58, 1162, 5635, 9718, 3891>>, <<-58, 1162, 2641, 699, 5651>>,
       <<-58, 1161, 16031, 14817, 12874>>, <<-58, 1161, 13040, 2903, 6230>>, <<-58, 1161, 10049, 14089, 15869>>,
       <<-58, 1161, 7060, 15591, 6736>>, <<-58, 1161, 4073, 7389, 9633>>, <<-58, 1161, 1087, 5850, 6540>>,
       <<-58, 1160, 14486, 10955, 12529>>, <<-58, 1160, 11503, 6303, 10230>>, <<-58, 1160, 8521, 8259, 15365>>,
       <<-58, 1160, 5541, 422, 11215>>, <<-58, 1160, 2561, 15541, 14148>>, <<-58, 1159, 15968, 4447, 8092>>,
       <<-58, 1159, 12991, 16273, 10063>>, <<-58, 1159, 10017, 1850, 4633>>, <<-58, 1159, 7043, 10311, 9464>>,
       <<-58, 1159, 4071, 8871, 9770>>, <<-58, 1159, 1100, 13896, 7473>>, <<-58, 1158, 14515, 8984, 4813>>,
       <<-58, 1158, 11547, 10501, 4352>>, <<-58, 1158, 8581, 2045, 8970>>, <<-58, 1158, 5615, 16367, 5484>>,
       <<-58, 1158, 2652, 4296, 13798>>, <<-58, 1157, 16073, 14968, 4980>>, <<-58, 1157, 13112, 15595, 15956>>,
       <<-58, 1157, 10153, 6162, 2045>>, <<-58, 1157, 7195, 3033, 807>>, <<-58, 1157, 4238, 6191, 964>>,
       <<-58, 1157, 1282, 15618, 7939>>, <<-58, 1156, 14712, 14913, 11088>>, <<-58, 1156, 11760, 4059, 81>>,
       <<-58, 1156, 8808, 15804, 14055>>, <<-58, 1156, 5859, 981, 10541>>, <<-58, 1156, 2910, 8723, 12922>>,
       <<-58, 1155, 16347, 6245, 12124>>, <<-58, 1155, 13401, 9913, 15771>>, <<-58, 1155, 10457, 3326, 15418>>,
       <<-58, 1155, 7514, 2851, 2928>>, <<-58, 1155, 4572, 8469, 3247>>, <<-58, 1155, 1632, 3779, 8864>>,
       <<-58, 1154, 15077, 5148, 12577>>, <<-58, 1154, 12139, 12559, 7497>>, <<-58, 1154, 9203, 9610, 3427>>,
       <<-58, 1154, 6268, 12667, 10481>>, <<-58, 1154, 3335, 5330, 6314>>, <<-58, 1154, 403, 3965, 1657>>,
       <<-58, 1153, 13856, 8554, 7551>>, <<-58, 1153, 10927, 2697, 2574>>, <<-58, 1153, 7999, 2759, 14766>>,
       <<-58, 1153, 5072, 8725, 6938>>, <<-58, 1153, 2147, 4192, 7742>>, <<-58, 1152, 15607, 5527, 13369>>,
       <<-58, 1152, 12684, 12714, 3933>>, <<-58, 1152, 9763, 9350, 9004>>, <<-58, 1152, 6843, 11803, 9304>>,
       <<-58, 1152, 3925, 3672, 2246>>, <<-58, 1152, 1008, 1323, 1930>>, <<-58, 1151, 14476, 4739, 6373>>,
       <<-58, 1151, 11561, 13903, 13901>>, <<-58, 1151, 8648, 12415, 6752>>, <<-58, 1151, 5737, 257, 241>>,
       <<-58, 1151, 2826, 10179, 9979>>, <<-58, 1150, 16301, 9398, 2732>>, <<-58, 1150, 13393, 14279, 11098>>,
       <<-58, 1150, 10487, 8423, 2444>>, <<-58, 1150, 7582, 8195, 9970>>, <<-58, 1150, 4678, 13580, 1643>>,
       <<-58, 1150, 1776, 8175, 11262>>, <<-58, 1149, 15259, 8349, 7393>>, <<-58, 1149, 12359, 14084, 8048>>,
       <<-58, 1149, 9461, 8979, 15158>>, <<-58, 1149, 6564, 9402, 14564>>, <<-58, 1149, 3668, 15336, 8790>>,
       <<-58, 1149, 774, 10380, 658>>, <<-58, 1148, 14265, 10900, 9669>>, <<-58, 1148, 11374, 497, 6468>>,
       <<-58, 1148, 8483, 11921, 11149>>, <<-58, 1148, 5594, 12388, 11332>>, <<-58, 1148, 2707, 1881, 11318>>,
       <<-58, 1147, 16204, 13151, 15700>>, <<-58, 1147, 13319, 13414, 12983>>, <<-58, 1147, 10436, 2653, 8349>>,
       <<-58, 1147, 7553, 13619, 7273>>, <<-58, 1147, 4672, 13527, 15524>>, <<-58, 1147, 1793, 2362, 6393>>,
       <<-58, 1146, 15298, 12874, 2619>>, <<-58, 1146, 12421, 12278, 10846>>, <<-58, 1146, 9546, 559, 5241>>,
       <<-58, 1146, 6671, 10467, 9415>>, <<-58, 1146, 3798, 9218, 14501>>, <<-58, 1146, 926, 13180, 11924>>,
       <<-58, 1145, 14440, 5952, 9780>>, <<-58, 1145, 11571, 3902, 70>>, <<-58, 1145, 8703, 7012, 7856>>,
       <<-58, 1145, 5836, 15267, 9331>>, <<-58, 1145, 2971, 12266, 13749>>, <<-58, 1145, 107, 14377, 14264>>,
       <<-58, 1144, 13629, 5200, 4320>>, <<-58, 1144, 10768, 1101, 10414>>, <<-58, 1144, 7908, 2065, 10179>>,
       <<-58, 1144, 5049, 8075, 14300>>, <<-58, 1144, 2192, 2732, 983>>, <<-58, 1143, 15720, 2401, 14253>>,
       <<-58, 1143, 12865, 7069, 117>>, <<-58, 1143, 10012, 333, 3168>>, <<-58, 1143, 7159, 14946, 2752>>,
       <<-58, 1143, 4309, 1739, 11262>>, <<-58, 1143, 1459, 9849, 8609>>, <<-58, 1142, 14995, 6491, 7754>>,
       <<-58, 1142, 12148, 8033, 5559>>, <<-58, 1142, 9302, 14458, 15548>>, <<-58, 1142, 6458, 9368, 2379>>,
       <<-58, 1142, 3615, 9128, 12908>>, <<-58, 1142, 773, 13724, 12354>>, <<-58, 1141, 14317, 6755, 15370>>,
       <<-58, 1141, 11478, 4590, 4118>>, <<-58, 1141, 8640, 7211, 10195>>, <<-58, 1141, 5803, 14603, 16323>>,
       <<-58, 1141, 2968, 10367, 5505>>, <<-58, 1141, 134, 10869, 10174>>, <<-58, 1140, 13685, 16094, 13889>>,
       <<-58, 1140, 10854, 9643, 489>>, <<-58, 1140, 8024, 7882, 3240>>, <<-58, 1140, 5195, 10796, 6536>>,
       <<-58, 1140, 2368, 1985, 11428>>, <<-58, 1139, 15925, 14202, 2864>>, <<-58, 1139, 13100, 14661, 15218>>,
       <<-58, 1139, 10277, 3349, 1218>>, <<-58, 1139, 7454, 13015, 12176>>, <<-58, 1139, 4633, 10878, 1370>>,
       <<-58, 1139, 1813, 13304, 4275>>, <<-58, 1138, 15379, 3894, 7490>>, <<-58, 1138, 12561, 15400, 14268>>,
       <<-58, 1138, 9745, 15039, 11754>>, <<-58, 1138, 6931, 2795, 3751>>, <<-58, 1138, 4117, 11419, 10716>>,
       <<-58, 1138, 1305, 8129, 4229>>, <<-58, 1137, 14878, 9292, 5292>>, <<-58, 1137, 12068, 14893, 2412>>,
       <<-58, 1137, 9260, 8532, 751>>, <<-58, 1137, 6453, 6577, 5742>>, <<-58, 1137, 3647, 9013, 6705>>,
       <<-58, 1137, 842, 15824, 9612>>, <<-58, 1136, 14423, 10611, 4323>>, <<-58, 1136, 11621, 9741, 13736>>,
       <<-58, 1136, 8820, 13200, 11864>>, <<-58, 1136, 6021, 4588, 5758>>, <<-58, 1136, 3223, 273, 2738>>,
       <<-58, 1136, 426, 239, 10390>>, <<-58, 1135, 14014, 4472, 3801>>, <<-58, 1135, 11219, 12955, 7477>>,
       <<-58, 1135, 8426, 9289, 13424>>, <<-58, 1135, 5634, 9843, 13913>>, <<-58, 1135, 2843, 14602, 1482>>,
       <<-58, 1135, 54, 7165, 1702>>, <<-58, 1134, 13650, 3901, 7643>>, <<-58, 1134, 10863, 4795, 12639>>,
       <<-58, 1134, 8077, 9832, 10289>>, <<-58, 1134, 5293, 2612, 10841>>, <<-58, 1134, 2509, 15888, 8422>>,
       <<-58, 1133, 16112, 492, 13807>>, <<-58, 1133, 13331, 5562, 5267>>, <<-58, 1133, 10551, 14697, 10488>>,
       <<-58, 1133, 7773, 11499, 8265>>, <<-58, 1133, 4996, 12336, 10426>>, <<-58, 1133, 2221, 809, 12675>>,
       <<-58, 1132, 15830, 9671, 10977>>, <<-58, 1132, 13057, 6139, 1561>>, <<-58, 1132, 10285, 6580, 13683>>,
       <<-58, 1132, 7514, 10981, 11322>>, <<-58, 1132, 4745, 2942, 7873>>, <<-58, 1132, 1976, 15216, 603>>,
       <<-58, 1131, 15593, 15019, 3425>>, <<-58, 1131, 12828, 2336, 14126>>, <<-58, 1131, 10063, 9921, 14369>>,
       <<-58, 1131, 7300, 4991, 2457>>, <<-58, 1131, 4538, 3913, 9722>>, <<-58, 1131, 1777, 6674, 2216>>,
       <<-58, 1130, 15401, 13257, 11785>>, <<-58, 1130, 12643, 7265, 4995>>, <<-58, 1130, 9886, 5065, 14207>>,
       <<-58, 1130, 7130, 6644, 6500>>, <<-58, 1130, 4375, 11985, 14745>>, <<-58, 1130, 1622, 4691, 6536>>,
       <<-58, 1129, 15254, 1129, 15254>>, <<-58, 1129, 12503, 1286, 9002>>, <<-58, 1129, 9753, 5146, 5288>>,
       <<-58, 1129, 7004, 12694, 5492>>, <<-58, 1129, 4257, 7531, 11245>>, <<-58, 1129, 1511, 6027, 8052>>,
       <<-58, 1128, 15150, 8166, 14435>>, <<-58, 1128, 12406, 13935, 19>>, <<-58, 1128, 9664, 6933, 219>>,
       <<-58, 1128, 6923, 3530, 1547>>, <<-58, 1128, 4183, 3711, 7154>>, <<-58, 1128, 1444, 7462, 4056>>,
       <<-58, 1127, 15090, 14767, 12291>>, <<-58, 1127, 12354, 9229, 2993>>, <<-58, 1127, 9619, 7215, 13085>>,
       <<-58, 1127, 6885, 8712, 14204>>, <<-58, 1127, 4152, 13705, 11004>>, <<-58, 1127, 1421, 5795, 8388>>,
       <<-58, 1126, 15075, 1351, 11510>>, <<-58, 1126, 12346, 359, 9389>>, <<-58, 1126, 9618, 2804, 7674>>,
       <<-58, 1126, 6891, 8671, 12266>>, <<-58, 1126, 4166, 1562, 12926>>, <<-58, 1126, 1441, 14230, 16051>>,
       <<-58, 1125, 15102, 13893, 11897>>, <<-58, 1125, 12381, 536, 7354>>, <<-58, 1125, 9660, 6912, 9557>>,
       <<-58, 1125, 6941, 239, 9505>>, <<-58, 1125, 4222, 13270, 14825>>, <<-58, 1125, 1505, 13224, 622>>,
       <<-58, 1124, 15174, 84, 7784>>, <<-58, 1124, 12459, 6605, 11906>>, <<-58, 1124, 9746, 5, 5213>>,
       <<-58, 1124, 7033, 13036, 12942>>, <<-58, 1124, 4322, 12917, 11422>>, <<-58, 1124, 1612, 16017, 9993>>,
       <<-58, 1123, 15288, 5938, 1857>>, <<-58, 1123, 12580, 15432, 13222>>, <<-58, 1123, 9874, 11719, 5009>>,
       <<-58, 1123, 7169, 11167, 3912>>, <<-58, 1123, 4465, 13762, 4103>>, <<-58, 1123, 1763, 3105, 16377>>,
       <<-58, 1122, 15445, 11952, 2621>>, <<-58, 1122, 12745, 7518, 6881>>, <<-58, 1122, 10046, 6174, 7908>>,
       <<-58, 1122, 7348, 7906, 1079>>, <<-58, 1122, 4651, 12698, 14779>>, <<-58, 1122, 1956, 4154, 12094>>,
       <<-58, 1121, 15645, 15027, 5506>>, <<-58, 1121, 12952, 12534, 7734>>, <<-58, 1121, 10260, 13045, 15350>>,
       <<-58, 1121, 7570, 163, 8784>>, <<-58, 1121, 4880, 6641, 1471>>, <<-58, 1121, 2191, 16080, 7084>>,
       <<-58, 1120, 15888, 12083, 6764>>, <<-58, 1120, 13202, 11019, 14661>>, <<-58, 1120, 10517, 12875, 12390>>,
       <<-58, 1120, 7834, 1252, 14574>>, <<-58, 1120, 5151, 8905, 3302>>, <<-58, 1120, 2470, 3050, 10053>>,
       <<-58, 1119, 16174, 59, 1006>>, <<-58, 1119, 13494, 16300, 8108>>, <<-58, 1119, 10817, 2608, 14394>>,
       <<-58, 1119, 8140, 8122, 3130>>, <<-58, 1119, 5465, 58, 6971>>, <<-58, 1119, 2790, 11171, 9653>>,
       <<-58, 1119, 117, 8679, 11530>>, <<-58, 1118, 13829, 8952, 13191>>, <<-58, 1118, 11158, 11976, 15457>>,
       <<-58, 1118, 8489, 1354, 2998>>, <<-58, 1118, 5820, 9838, 9869>>, <<-58, 1118, 3153, 4648, 4822>>,
       <<-58, 1118, 487, 2153, 5993>>, <<-58, 1117, 14206, 2339, 15364>>, <<-58, 1117, 11542, 5194, 2383>>,
       <<-58, 1117, 8879, 10702, 2263>>, <<-58, 1117, 6218, 2466, 1299>>, <<-58, 1117, 3557, 13240, 2398>>,
       <<-58, 1117, 898, 10242, 8696>>, <<-58, 1116, 14624, 9843, 7180>>, <<-58, 1116, 11967, 12029, 1446>>,
       <<-58, 1116, 9312, 401, 11705>>, <<-58, 1116, 6657, 7715, 9245>>, <<-58, 1116, 4004, 1188, 14736>>,
       <<-58, 1116, 1351, 13575, 16306>>, <<-58, 1115, 15084, 12095, 2314>>, <<-58, 1115, 12434, 13116, 10498>>,
       <<-58, 1115, 9786, 242, 13285>>, <<-58, 1115, 7138, 6227, 16102>>, <<-58, 1115, 4491, 14674, 8214>>,
       <<-58, 1115, 1846, 9184, 11885>>, <<-58, 1114, 15586, 6129, 452>>, <<-58, 1114, 12943, 5493, 13012>>,
       <<-58, 1114, 10301, 7265, 6971>>, <<-58, 1114, 7660, 11430, 5495>>, <<-58, 1114, 5021, 1590, 15590>>,
       <<-58, 1114, 2382, 10501, 11723>>, <<-58, 1113, 16129, 5381, 1349>>, <<-58, 1113, 13493, 2599, 8534>>,
       <<-58, 1113, 10858, 2143, 8415>>, <<-58, 1113, 8224, 3999, 9123>>, <<-58, 1113, 5591, 8154, 2625>>,
       <<-58, 1113, 2959, 14593, 13881>>, <<-58, 1113, 329, 6921, 2538>>, <<-58, 1112, 14084, 1506, 10387>>,
       <<-58, 1112, 11455, 14720, 13903>>, <<-58, 1112, 8828, 13782, 6167>>, <<-58, 1112, 6202, 15061, 13251>>,
       <<-58, 1112, 3578, 2161, 12297>>, <<-58, 1112, 954, 7836, 13435>>, <<-58, 1111, 14715, 15689, 10632>>,
       <<-58, 1111, 12094, 9322, 14460>>, <<-58, 1111, 9474, 5107, 2943>>, <<-58, 1111, 6855, 3029, 3478>>,
       <<-58, 1111, 4237, 3075, 10912>>, <<-58, 1111, 1620, 5233, 3929>>, <<-58, 1110, 15388, 9488, 10583>>,
       <<-58, 1110, 12773, 15828, 9997>>, <<-58, 1110, 10160, 7855, 14278>>, <<-58, 1110, 7548, 1941, 2985>>,
       <<-58, 1110, 4936, 14455, 5046>>, <<-58, 1110, 2326, 12617, 457>>, <<-58, 1109, 16101, 12797, 2196>>,
       <<-58, 1109, 13493, 14982, 7077>>, <<-58, 1109, 10887, 2775, 12130>>, <<-58, 1109, 8281, 8931, 14601>>,
       <<-58, 1109, 5677, 669, 11954>>, <<-58, 1109, 3073, 10744, 1869>>, <<-58, 1109, 471, 6373, 15007>>,
       <<-58, 1108, 14254, 3930, 327>>, <<-58, 1108, 11654, 3399, 5308>>, <<-58, 1108, 9055, 4768, 12106>>,
       <<-58, 1108, 6457, 8025, 3093>>, <<-58, 1108, 3860, 13155, 10006>>, <<-58, 1108, 1265, 3762, 15646>>,
       <<-58, 1107, 15054, 12602, 3026>>, <<-58, 1107, 12461, 6892, 4527>>, <<-58, 1107, 9869, 3004, 3589>>,
       <<-58, 1107, 7278, 925, 250>>, <<-58, 1107, 4688, 641, 11145>>, <<-58, 1107, 2099, 2141, 3969>>,
       <<-58, 1106, 15895, 5410, 12166>>, <<-58, 1106, 13308, 10437, 3856>>, <<-58, 1106, 10723, 823, 12905>>,
       <<-58, 1106, 8138, 9325, 7856>>, <<-58, 1106, 5555, 3161, 6615>>, <<-58, 1106, 2972, 15086, 10915>>,
       <<-58, 1106, 391, 12320, 6315>>, <<-58, 1105, 14195, 11233, 11352>>, <<-58, 1105, 11616, 11813, 12006>>,
       <<-58, 1105, 9038, 14047, 10852>>, <<-58, 1105, 6462, 1538, 10670>>, <<-58, 1105, 3886, 7041, 14455>>,
       <<-58, 1105, 1311, 14160, 9024>>, <<-58, 1104, 15122, 6497, 14169>>, <<-58, 1104, 12550, 425, 743>>,
       <<-58, 1104, 9978, 12313, 5339>>, <<-58, 1104, 7408, 9381, 15608>>, <<-58, 1104, 4839, 8002, 3025>>,
       <<-58, 1104, 2271, 8161, 4807>>, <<-58, 1103, 16088, 9846, 9227>>, <<-58, 1103, 13522, 13045, 4764>>,
       <<-58, 1103, 10958, 1360, 12874>>, <<-58, 1103, 8394, 7548, 6064>>, <<-58, 1103, 5831, 15211, 6202>>,
       <<-58, 1103, 3270, 7953, 2592>>, <<-58, 1103, 710, 2145, 1128>>, <<-58, 1102, 14534, 14158, 7910>>,
       <<-58, 1102, 11976, 11212, 12857>>, <<-58, 1102, 9419, 9679, 6096>>, <<-58, 1102, 6863, 9545, 10723>>,
       <<-58, 1102, 4308, 10799, 890>>, <<-58, 1102, 1754, 13427, 101>>, <<-58, 1101, 15586, 1032, 15683>>,
       <<-58, 1101, 13034, 6372, 6013>>, <<-58, 1101, 10483, 13048, 11590>>, <<-58, 1101, 7934, 4665, 7583>>,
       <<-58, 1101, 5385, 13978, 2130>>, <<-58, 1101, 2838, 8206, 3570>>, <<-58, 1101, 292, 3721, 4063>>,
       <<-58, 1100, 14131, 510, 12354>>, <<-58, 1100, 11586, 14946, 4619>>, <<-58, 1100, 9043, 14247, 6392>>,
       <<-58, 1100, 6501, 14785, 10636>>, <<-58, 1100, 3961, 164, 10519>>, <<-58, 1100, 1421, 3139, 15789>>,
       <<-58, 1099, 15266, 7315, 3630>>, <<-58, 1099, 12728, 12678, 576>>, <<-58, 1099, 10192, 2832, 595>>,
       <<-58, 1099, 7656, 10532, 14237>>, <<-58, 1099, 5122, 3000, 3099>>, <<-58, 1099, 2588, 12989, 10899>>,
       <<-58, 1099, 56, 7720, 16017>>, <<-58, 1098, 13909, 3565, 13414>>, <<-58, 1098, 11379, 511, 14636>>,
       <<-58, 1098, 8849, 14930, 15041>>, <<-58, 1098, 6321, 14042, 10186>>, <<-58, 1098, 3794, 14218, 12210>>,
       <<-58, 1098, 1268, 15447, 681>>, <<-58, 1097, 15128, 1331, 4515>>, <<-58, 1097, 12604, 4627, 3675>>,
       <<-58, 1097, 10081, 8938, 11085>>, <<-58, 1097, 7559, 14253, 7103>>, <<-58, 1097, 5039, 4175, 5045>>,
       <<-58, 1097, 2519, 11460, 2043>>, <<-58, 1097, 1, 3327, 11808>>, <<-58, 1096, 13867, 12533, 15478>>,
       <<-58, 1096, 11351, 6298, 10768>>, <<-58, 1096, 8836, 993, 11976>>, <<-58, 1096, 6321, 12991, 823>>,
       <<-58, 1096, 3808, 9510, 8378>>, <<-58, 1096, 1296, 6924, 369>>, <<-58, 1095, 15169, 5219, 8253>>,
       <<-58, 1095, 12659, 4384, 14528>>, <<-58, 1095, 10150, 4408, 1886>>, <<-58, 1095, 7642, 5277, 2364>>,
       <<-58, 1095, 5135, 6979, 15426>>, <<-58, 1095, 2629, 9504, 7957>>, <<-58, 1095, 124, 12838, 12573>>,
       <<-58, 1094, 14005, 586, 12929>>, <<-58, 1094, 11502, 5504, 9258>>, <<-58, 1094, 9000, 11196, 1982>>,
       <<-58, 1094, 6500, 1265, 8100>>, <<-58, 1094, 4000, 8468, 12035>>, <<-58, 1094, 1502, 25, 14783>>,
       <<-58, 1093, 15388, 8693, 1147>>, <<-58, 1093, 12892, 1690, 5276>>, <<-58, 1093, 10396, 11773, 12352>>,
       <<-58, 1093, 7902, 6163, 7752>>, <<-58, 1093, 5409, 1231, 9807>>, <<-58, 1093, 2916, 13350, 4271>>,
       <<-58, 1093, 425, 9739, 9856>>, <<-58, 1092, 14319, 6771, 12695>>, <<-58, 1092, 11830, 4434, 15492>>,
       <<-58, 1092, 9342, 2717, 4759>>, <<-58, 1092, 6855, 1606, 16345>>, <<-58, 1092, 4369, 1092, 4369>>,
       <<-58, 1092, 1884, 1161, 5058>>, <<-58, 1091, 15784, 1802, 5673>>, <<-58, 1091, 13301, 3003, 10050>>,
       <<-58, 1091, 10819, 4753, 5824>>, <<-58, 1091, 8338, 7039, 13587>>, <<-58, 1091, 5858, 9851, 4966>>,
       <<-58, 1091, 3379, 13176, 927>>, <<-58, 1091, 902, 618, 6236>>, <<-58, 1090, 14809, 4934, 9464>>,
       <<-58, 1090, 12333, 9728, 15750>>, <<-58, 1090, 9858, 14989, 14034>>, <<-58, 1090, 7385, 4321, 9828>>,
       <<-58, 1090, 4912, 10480, 8826>>, <<-58, 1090, 2441, 687, 525>>, <<-58, 1089, 16354, 7697, 7374>>,
       <<-58, 1089, 13884, 15116, 2854>>, <<-58, 1089, 11416, 6547, 9784>>, <<-58, 1089, 8948, 14748, 2012>>,
       <<-58, 1089, 6482, 6938, 2725>>, <<-58, 1089, 4016, 15874, 2523>>, <<-58, 1089, 1552, 8776, 8575>>,
       <<-58, 1088, 15473, 2017, 11848>>, <<-58, 1088, 13010, 11970, 3491>>, <<-58, 1088, 10549, 5854, 7607>>,
       <<-58, 1088, 8089, 42, 15710>>, <<-58, 1088, 5629, 10908, 3114>>, <<-58, 1088, 3171, 5670, 10849>>,
       <<-58, 1088, 714, 702, 14593>>, <<-58, 1087, 14641, 12377, 6588>>, <<-58, 1087, 12186, 7914, 12027>>,
       <<-58, 1087, 9732, 3687, 7129>>, <<-58, 1087, 7278, 16068, 1065>>, <<-58, 1087, 4826, 12277, 3184>>,
       <<-58, 1087, 2375, 8687, 6634>>, <<-58, 1086, 16309, 5287, 4740>>, <<-58, 1086, 13860, 2065, 7395>>,
       <<-58, 1086, 11411, 15394, 8283>>, <<-58, 1086, 8964, 12495, 1271>>, <<-58, 1086, 6518, 9739, 13171>>,
       <<-58, 1086, 4073, 7117, 5441>>, <<-58, 1086, 1629, 4616, 5250>>, <<-58, 1085, 15570, 2225, 7180>>,
       <<-58, 1085, 13127, 16317, 5992>>, <<-58, 1085, 10686, 14112, 13006>>, <<-58, 1085, 8246, 11984, 6955>>,
       <<-58, 1085, 5807, 9920, 15901>>, <<-58, 1085, 3369, 7911, 2547>>, <<-58, 1085, 932, 5943, 11693>>,
       <<-58, 1084, 14880, 4007, 6396>>, <<-58, 1084, 12445, 2090, 15427>>, <<-58, 1084, 10011, 183, 2197>>,
       <<-58, 1084, 7577, 14656, 12213>>, <<-58, 1084, 5145, 12732, 9238>>, <<-58, 1084, 2714, 10783, 6364>>,
       <<-58, 1084, 284, 8798, 474>>, <<-58, 1083, 14239, 6765, 5011>>, <<-58, 1083, 11811, 4674, 824>>,
       <<-58, 1083, 9384, 2513, 1707>>, <<-58, 1083, 6958, 271, 5244>>, <<-58, 1083, 4532, 14321, 9194>>,
       <<-58, 1083, 2108, 11884, 11489>>, <<-58, 1082, 16069, 9333, 10237>>, <<-58, 1082, 13647, 6657, 3720>>,
       <<-58, 1082, 11226, 3844, 6776>>, <<-58, 1082, 8806, 884, 1650>>, <<-58, 1082, 6386, 14149, 3529>>,
       <<-58, 1082, 3968, 10860, 11388>>, <<-58, 1082, 1551, 7391, 7991>>, <<-58, 1081, 15519, 3730, 9043>>,
       <<-58, 1081, 13103, 16250, 14037>>, <<-58, 1081, 10689, 12173, 6257>>, <<-58, 1081, 8276, 7871, 1923>>,
       <<-58, 1081, 5864, 3333, 1045>>, <<-58, 1081, 3452, 14932, 3806>>, <<-58, 1081, 1042, 9889, 10558>>,
       <<-58, 1080, 15017, 4578, 5442>>, <<-58, 1080, 12608, 15371, 5537>>, <<-58, 1080, 10201, 9489, 11709>>,
       <<-58, 1080, 7795, 3306, 8612>>, <<-58, 1080, 5389, 13194, 13836>>, <<-58, 1080, 2985, 6375, 12376>>,
       <<-58, 1080, 581, 15606, 5778>>, <<-58, 1079, 14563, 8107, 12144>>, <<-58, 1079, 12162, 253, 594>>,
       <<-58, 1079, 9761, 8415, 5951>>, <<-58, 1079, 7361, 16199, 14057>>, <<-58, 1079, 4963, 7211, 10924>>,
       <<-58, 1079, 2565, 14207, 15497>>, <<-58, 1079, 169, 4409, 14125>>, <<-58, 1078, 14157, 10574, 9709>>,
       <<-58, 1078, 11762, 16307, 5316>>, <<-58, 1078, 9369, 5213, 4184>>, <<-58, 1078, 6976, 10049, 9716>>,
       <<-58, 1078, 4584, 14421, 9100>>, <<-58, 1078, 2194, 1934, 6075>>, <<-58, 1077, 16188, 5345, 4547>>,
       <<-58, 1077, 13799, 8259, 8589>>, <<-58, 1077, 11411, 10666, 6058>>, <<-58, 1077, 9024, 12555, 1359>>,
       <<-58, 1077, 6638, 13914, 15450>>, <<-58, 1077, 4253, 14735, 3916>>, <<-58, 1077, 1869, 15005, 4431>>,
       <<-58, 1076, 15870, 14714, 5681>>, <<-58, 1076, 13488, 13851, 12902>>, <<-58, 1076, 11107, 12406, 15112>>,
       <<-58, 1076, 8727, 10369, 1493>>, <<-58, 1076, 6348, 7727, 10544>>, <<-58, 1076, 3970, 4471, 15392>>,
       <<-58, 1076, 1593, 591, 5716>>, <<-58, 1075, 15600, 12459, 4123>>, <<-58, 1075, 13225, 7297, 619>>,
       <<-58, 1075, 10851, 1478, 1756>>, <<-58, 1075, 8477, 11375, 14252>>, <<-58, 1075, 6105, 4211, 12217>>,
       <<-58, 1075, 3733, 12743, 2697>>, <<-58, 1075, 1363, 4191, 9280>>, <<-58, 1074, 15377, 11314, 6570>>,
       <<-58, 1074, 13009, 1333, 2097>>, <<-58, 1074, 10641, 7005, 3557>>, <<-58, 1074, 8274, 11936, 2423>>,
       <<-58, 1074, 5908, 16115, 6715>>, <<-58, 1074, 3544, 3148, 8228>>, <<-58, 1074, 1180, 5792, 15308>>,
       <<-58, 1073, 15201, 7654, 3688>>, <<-58, 1073, 12839, 8721, 14805>>, <<-58, 1073, 10478, 8985, 8332>>,
       <<-58, 1073, 8118, 8434, 9642>>, <<-58, 1073, 5759, 7058, 11500>>, <<-58, 1073, 3401, 4847, 6830>>,
       <<-58, 1073, 1044, 1790, 5103>>, <<-58, 1072, 15071, 14260, 15949>>, <<-58, 1072, 12716, 9481, 4>>,
       <<-58, 1072, 10362, 3823, 16372>>, <<-58, 1072, 8008, 13663, 9626>>, <<-58, 1072, 5656, 6221, 6417>>,
       <<-58, 1072, 3304, 14255, 791>>, <<-58, 1072, 954, 4986, 3335>>, <<-58, 1071, 14988, 11172, 8409>>,
       <<-58, 1071, 12640, 35, 10535>>, <<-58, 1071, 10292, 4333, 4392>>, <<-58, 1071, 7945, 7671, 1201>>,
       <<-58, 1071, 5599, 10038, 12341>>, <<-58, 1071, 3254, 11426, 198>>, <<-58, 1071, 910, 11822, 9234>>,
       <<-58, 1070, 14951, 11218, 2151>>, <<-58, 1070, 12609, 9602, 7341>>, <<-58, 1070, 10268, 6965, 4204>>,
       <<-58, 1070, 7928, 3296, 5064>>, <<-58, 1070, 5588, 14969, 6017>>, <<-58, 1070, 3250, 9206, 3316>>,
       <<-58, 1070, 913, 2380, 9756>>, <<-58, 1069, 14960, 10866, 5518>>, <<-58, 1069, 12625, 1885, 3707>>,
       <<-58, 1069, 10290, 8195, 1201>>, <<-58, 1069, 7956, 13401, 11419>>, <<-58, 1069, 5624, 1110, 15163>>,
       <<-58, 1069, 3292, 4080, 9779>>, <<-58, 1069, 961, 5916, 9149>>, <<-58, 1068, 15015, 6608, 10927>>,
       <<-58, 1068, 12686, 6146, 12922>>, <<-58, 1068, 10358, 4520, 13096>>, <<-58, 1068, 8031, 1720, 9569>>,
       <<-58, 1068, 5704, 14120, 610>>, <<-58, 1068, 3379, 8941, 1031>>, <<-58, 1068, 1055, 2557, 9409>>,
       <<-58, 1067, 15115, 11343, 8095>>, <<-58, 1067, 12793, 2520, 12358>>, <<-58, 1067, 10471, 8847, 4854>>,
       <<-58, 1067, 8150, 13929, 1160>>, <<-58, 1067, 5831, 1372, 621>>, <<-58, 1067, 3512, 3934, 2736>>,
       <<-58, 1067, 1194, 5221, 7155>>, <<-58, 1066, 15261, 5223, 13681>>, <<-58, 1066, 12945, 3931, 5886>>,
       <<-58, 1066, 10630, 1334, 261>>, <<-58, 1066, 8315, 13805, 13448>>, <<-58, 1066, 6002, 8568, 13091>>,
       <<-58, 1066, 3690, 1996, 16134>>, <<-58, 1066, 1378, 10464, 6908>>, <<-58, 1065, 15452, 1193, 2660>>,
       <<-58, 1065, 13142, 6941, 4406>>, <<-58, 1065, 10833, 11314, 13311>>, <<-58, 1065, 8525, 14303, 14307>>,
       <<-58, 1065, 6218, 15898, 8862>>, <<-58, 1065, 3912, 16088, 14976>>, <<-58, 1065, 1607, 14865, 1647>>,
       <<-58, 1064, 15687, 12217, 3561>>, <<-58, 1064, 13384, 8135, 6399>>, <<-58, 1064, 11082, 2609, 12378>>,
       <<-58, 1064, 8780, 12014, 7477>>, <<-58, 1064, 6480, 3571, 10596>>, <<-58, 1064, 4180, 10039, 8012>>,
       <<-58, 1064, 1881, 15024, 2538>>, <<-58, 1063, 15968, 2131, 13518>>, <<-58, 1063, 13671, 4120, 11292>>,
       <<-58, 1063, 11375, 4596, 15502>>, <<-58, 1063, 9080, 3550, 13167>>, <<-58, 1063, 6786, 972, 7841>>,
       <<-58, 1063, 4492, 13236, 3225>>, <<-58, 1063, 2200, 7564, 3165>>, <<-58, 1062, 16293, 330, 11657>>,
       <<-58, 1062, 14002, 7910, 75>>, <<-58, 1062, 11712, 13908, 5478>>, <<-58, 1062, 9424, 1931, 15916>>,
       <<-58, 1062, 7136, 4739, 3205>>, <<-58, 1062, 4849, 5936, 4842>>, <<-58, 1062, 2563, 5513, 9319>>,
       <<-58, 1062, 278, 3461, 5273>>, <<-58, 1061, 14377, 16153, 14256>>, <<-58, 1061, 12094, 10813, 8812>>,
       <<-58, 1061, 9812, 3814, 10786>>, <<-58, 1061, 7530, 11531, 9398>>, <<-58, 1061, 5250, 1186, 10396>>,
       <<-58, 1061, 2970, 5538, 3293>>, <<-58, 1061, 691, 8192, 10511>>, <<-58, 1060, 14797, 9140, 5468>>,
       <<-58, 1060, 12520, 8371, 10875>>, <<-58, 1060, 10244, 5877, 438>>, <<-58, 1060, 7969, 1646, 13544>>,
       <<-58, 1060, 5694, 12055, 7801>>, <<-58, 1060, 3421, 4325, 6499>>, <<-58, 1060, 1148, 11215, 303>>,
       <<-58, 1059, 15260, 16330, 12791>>, <<-58, 1059, 12990, 3279, 2146>>, <<-58, 1059, 10720, 4818, 8617>>,
       <<-58, 1059, 8451, 4555, 7056>>, <<-58, 1059, 6183, 2480, 5230>>, <<-58, 1059, 3915, 14967, 11047>>,
       <<-58, 1059, 1649, 9239, 16174>>, <<-58, 1058, 15768, 1671, 12419>>, <<-58, 1058, 13503, 8637, 8117>>,
       <<-58, 1058, 11239, 13743, 11746>>, <<-58, 1058, 8977, 596, 15541>>, <<-58, 1058, 6715, 1955, 11879>>,
       <<-58, 1058, 4454, 1426, 9662>>, <<-58, 1058, 2193, 15384, 1550>>, <<-58, 1057, 16318, 11050, 13111>>,
       <<-58, 1057, 14060, 4801, 4521>>, <<-58, 1057, 11802, 13010, 1628>>, <<-58, 1057, 9546, 2899, 14043>>,
       <<-58, 1057, 7290, 7229, 2359>>, <<-58, 1057, 5035, 9604, 9234>>, <<-58, 1057, 2781, 10016, 11929>>,
       <<-58, 1057, 528, 8456, 4228>>, <<-58, 1056, 14660, 4913, 12824>>, <<-58, 1056, 12408, 15763, 15398>>,
       <<-58, 1056, 10158, 8229, 6153>>, <<-58, 1056, 7908, 15068, 12201>>, <<-58, 1056, 5660, 3504, 11640>>,
       <<-58, 1056, 3412, 6295, 15477>>, <<-58, 1056, 1165, 7049, 2087>>, <<-58, 1055, 15303, 5754, 15522>>,
       <<-58, 1055, 13058, 2404, 1669>>, <<-58, 1055, 10813, 13371, 4854>>, <<-58, 1055, 8570, 5879, 4010>>,
       <<-58, 1055, 6327, 12686, 10972>>, <<-58, 1055, 4086, 1016, 4948>>, <<-58, 1055, 1845, 3626, 14434>>,
       <<-58, 1054, 15989, 4125, 2528>>, <<-58, 1054, 13750, 2501, 14385>>, <<-58, 1054, 11511, 15131, 13379>>,
       <<-58, 1054, 9274, 9237, 12171>>, <<-58, 1054, 7038, 1194, 7176>>, <<-58, 1054, 4802, 7376, 11331>>,
       <<-58, 1054, 2567, 11391, 4939>>, <<-58, 1054, 333, 13229, 1209>>, <<-58, 1053, 14484, 12880, 13488>>,
       <<-58, 1053, 12252, 10337, 6104>>, <<-58, 1053, 10021, 5589, 9058>>, <<-58, 1053, 7790, 15012, 3337>>,
       <<-58, 1053, 5561, 5828, 2830>>, <<-58, 1053, 3332, 10796, 5176>>, <<-58, 1053, 1104, 13523, 8152>>,
       <<-58, 1052, 15261, 14000, 9669>>, <<-58, 1052, 13035, 12218, 7774>>, <<-58, 1052, 10810, 8168, 648>>,
       <<-58, 1052, 8586, 1840, 2991>>, <<-58, 1052, 6362, 9609, 13254>>, <<-58, 1052, 4139, 15083, 13637>>,
       <<-58, 1052, 1918, 1869, 2861>>, <<-58, 1051, 16081, 2724, 12546>>, <<-58, 1051, 13861, 1257, 8913>>,
       <<-58, 1051, 11641, 13842, 7466>>, <<-58, 1051, 9423, 7702, 7461>>, <<-58, 1051, 7205, 15596, 8287>>,
       <<-58, 1051, 4989, 4747, 9465>>, <<-58, 1051, 2773, 7914, 10650>>, <<-58, 1051, 558, 8704, 11630>>,
       <<-58, 1050, 14728, 7108, 12328>>, <<-58, 1050, 12515, 3117, 12796>>, <<-58, 1050, 10302, 13106, 13222>>,
       <<-58, 1050, 8091, 4298, 13924>>, <<-58, 1050, 5880, 9452, 15353>>, <<-58, 1050, 3670, 12176, 1708>>,
       <<-58, 1050, 1461, 12459, 6474>>, <<-58, 1049, 15637, 10293, 14113>>, <<-58, 1049, 13430, 5670, 9220>>,
       <<-58, 1049, 11223, 14964, 9289>>, <<-58, 1049, 9018, 5398, 15563>>, <<-58, 1049, 6813, 9732, 13030>>,
       <<-58, 1049, 4609, 11573, 3194>>, <<-58, 1049, 2406, 10911, 4074>>, <<-58, 1049, 204, 7738, 1053>>,
       <<-58, 1048, 14387, 2044, 12410>>, <<-58, 1048, 12186, 10206, 7404>>, <<-58, 1048, 9986, 15830, 4577>>,
       <<-58, 1048, 7788, 2523, 6216>>, <<-58, 1048, 5590, 3044, 14738>>, <<-58, 1048, 3393, 1001, 16306>>,
       <<-58, 1048, 1196, 12769, 13598>>, <<-58, 1047, 15385, 5571, 9420>>, <<-58, 1047, 13190, 12166, 6707>>,
       <<-58, 1047, 10996, 16161, 8526>>, <<-58, 1047, 8804, 1164, 1687>>, <<-58, 1047, 6611, 16317, 5896>>,
       <<-58, 1047, 4420, 12460, 8223>>, <<-58, 1047, 2230, 5968, 12247>>, <<-58, 1047, 40, 13217, 5294>>,
       <<-58, 1046, 14236, 1429, 7587>>, <<-58, 1046, 12048, 3364, 6707>>, <<-58, 1046, 9861, 2629, 6748>>,
       <<-58, 1046, 7674, 15599, 11932>>, <<-58, 1046, 5489, 9498, 10226>>, <<-58, 1046, 3305, 701, 6105>>,
       <<-58, 1046, 1121, 5583, 4177>>, <<-58, 1045, 15322, 7751, 9172>>, <<-58, 1045, 13140, 7197, 9567>>,
       <<-58, 1045, 10959, 3912, 10348>>, <<-58, 1045, 8778, 14272, 245>>, <<-58, 1045, 6599, 5499, 882>>,
       <<-58, 1045, 4420, 10353, 1242>>, <<-58, 1045, 2242, 12441, 6819>>, <<-58, 1045, 65, 11755, 6847>>,
       <<-58, 1044, 14273, 8286, 7075>>, <<-58, 1044, 12098, 2025, 13372>>, <<-58, 1044, 9923, 9348, 15354>>,
       <<-58, 1044, 7749, 13863, 2759>>, <<-58, 1044, 5576, 15559, 14606>>, <<-58, 1044, 3404, 14430, 8117>>,
       <<-58, 1044, 1233, 10466, 6177>>, <<-58, 1043, 15447, 3658, 15410>>, <<-58, 1043, 13277, 10383, 9799>>,
       <<-58, 1043, 11108, 14247, 12604>>, <<-58, 1043, 8940, 15242, 14440>>, <<-58, 1043, 6773, 13360, 6048>>,
       <<-58, 1043, 4607, 8591, 11061>>, <<-58, 1043, 2442, 928, 4085>>, <<-58, 1043, 277, 6745, 9001>>,
       <<-58, 1042, 14497, 9651, 664>>, <<-58, 1042, 12334, 9636, 3202>>, <<-58, 1042, 10172, 6692, 8102>>,
       <<-58, 1042, 8011, 811, 6971>>, <<-58, 1042, 5850, 8368, 7928>>, <<-58, 1042, 3690, 12971, 2827>>,
       <<-58, 1042, 1531, 14611, 33>>, <<-58, 1041, 15757, 13279, 8030>>, <<-58, 1041, 13600, 8968, 2660>>,
       <<-58, 1041, 11444, 1668, 9039>>, <<-58, 1041, 9288, 7756, 3253>>, <<-58, 1041, 7133, 10838, 10664>>,
       <<-58, 1041, 4979, 10907, 7603>>, <<-58, 1041, 2826, 7954, 3292>>, <<-58, 1041, 674, 1970, 7074>>,
       <<-58, 1040, 14906, 9331, 12030>>, <<-58, 1040, 12755, 13645, 11365>>, <<-58, 1040, 10605, 14903, 14788>>,
       <<-58, 1040, 8456, 13097, 15745>>, <<-58, 1040, 6308, 8219, 7805>>, <<-58, 1040, 4161, 260, 1040>>,
       <<-58, 1040, 2014, 5595, 5646>>, <<-58, 1039, 16252, 7832, 15554>>, <<-58, 1039, 14107, 6964, 8431>>,
       <<-58, 1039, 11963, 2981, 11220>>, <<-58, 1039, 9819, 12260, 1830>>, <<-58, 1039, 7677, 2023, 7443>>,
       <<-58, 1039, 5535, 5031, 6209>>, <<-58, 1039, 3394, 4891, 9167>>, <<-58, 1039, 1254, 1595, 11092>>,
       <<-58, 1038, 15498, 11519, 6877>>, <<-58, 1038, 13360, 1886, 7922>>, <<-58, 1038, 11222, 5456, 9359>>,
       <<-58, 1038, 9085, 5837, 6443>>, <<-58, 1038, 6949, 3020, 10931>>, <<-58, 1038, 4813, 13382, 1929>>,
       <<-58, 1038, 2679, 4145, 7817>>, <<-58, 1038, 545, 8070, 7942>>, <<-58, 1037, 14796, 8764, 14535>>,
       <<-58, 1037, 12664, 6220, 7181>>, <<-58, 1037, 10533, 428, 14733>>, <<-58, 1037, 8402, 7766, 628>>,
       <<-58, 1037, 6272, 11839, 10340>>, <<-58, 1037, 4143, 12641, 7543>>, <<-58, 1037, 2015, 10163, 5179>>,
       <<-58, 1036, 16272, 4396, 16310>>, <<-58, 1036, 14145, 11718, 4960>>, <<-58, 1036, 12019, 15735, 812>>,
       <<-58, 1036, 9895, 55, 894>>, <<-58, 1036, 7770, 13822, 2353>>, <<-58, 1036, 5647, 7876, 2454>>,
       <<-58, 1036, 3524, 14976, 14962>>, <<-58, 1036, 1403, 2348, 4607>>, <<-58, 1035, 15666, 2750, 1772>>,
       <<-58, 1035, 13545, 16174, 4189>>, <<-58, 1035, 11426, 9844, 9707>>, <<-58, 1035, 9308, 136, 16289>>,
       <<-58, 1035, 7190, 3427, 5634>>, <<-58, 1035, 5073, 3323, 8706>>, <<-58, 1035, 2956, 16201, 7434>>,
       <<-58, 1035, 841, 9285, 249>>, <<-58, 1034, 15110, 15334, 2078>> >>

\* step_num ** -0.5, for the step numbers of the two tables only: 1..4010 and
\* 2^53 .. 2^53 + 7 (any other step number has no value here)
PowMinusHalfOf(step_num) ==
    CASE /\ step_num[1] = 0 /\ step_num[2] = 0
         /\ step_num[3] * LimbBase + step_num[4] \in 1..Len(PowMinusHalf)
           -> Dbl(PowMinusHalf[step_num[3] * LimbBase + step_num[4]])
      [] /\ step_num[1] = 2^11 /\ step_num[2] = 0 /\ step_num[3] = 0
         /\ step_num[4] + 1 \in 1..Len(PowMinusHalfHuge)
           -> Dbl(PowMinusHalfHuge[step_num[4] + 1])

\* Line 22 in doubles, as Python evaluates it: a = step_num * warmup_step**-1.5 and
\* b = step_num**-0.5, min(a, b) (which returns a unless b < a), and
\* (init_lr * warmup_step**0.5) * min(a, b).  pick names the argument min returned.
\* init_lr is a double, step_num a Python int in limbs, warmup_step an integer.
\* A step_num or warmup_step of 0 raises ZeroDivisionError (0 ** negative power).
LrWithMax(init_lr, step_num, warmup_step) ==
    IF step_num = PyInt(0) \/ warmup_step = 0
    THEN [raises |-> TRUE, val |-> NaN, pick |-> 0]
    ELSE LET a == MulD(FromInt(step_num), Dbl(PowMinusOneAndHalf[warmup_step]))
             b == PowMinusHalfOf(step_num)
             p == IF LtD(a, b) THEN 2 ELSE 1
             m == IF p = 1 THEN a ELSE b
         IN  [raises |-> FALSE,
              val |-> MulD(MulD(init_lr, Dbl(PowHalf[warmup_step])), m),
              pick |-> p]

Lr(init_lr, step_num, warmup_step) ==
    IF step_num = PyInt(0) \/ warmup_step = 0
    THEN [raises |-> TRUE, val |-> NaN, pick |-> 0]
    ELSE LET a == MulD(FromInt(step_num), Dbl(PowMinusOneAndHalf[warmup_step]))
             b == PowMinusHalfOf(step_num)
             p == IF LtD(b, a) THEN 2 ELSE 1
             m == IF p = 1 THEN a ELSE b
         IN  [raises |-> FALSE,
              val |-> MulD(MulD(init_lr, Dbl(PowHalf[warmup_step])), m),
              pick |-> p]

\* args.lr, any float the command line gives (line 188): the default 1e-4, and
\* 1.0, 0.03, 5e-324 (the smallest positive double), 1e308 and 3.0.
InitLrs ==
    << <<-66, 1677, 11822, 11377, 813>>, <<-52, 1024, 0, 0, 0>>, <<-58, 1966, 1310, 11796, 7864>>,
       <<-1074, 0, 0, 0, 1>>, <<971, 1139, 3896, 6063, 2208>>, <<-51, 1536, 0, 0, 0>> >>
LrDefault == Dbl(InitLrs[1])

\* Lines 21-24: line 22 computes the rate, or raises and leaves the groups as they
\* are; lines 23-24 write the rate into every parameter group.
adjust_learning_rate(init_lr, groups, step_num, warmup_step) ==
    CHOOSE r \in { IF lr.raises
                   THEN [raises |-> TRUE, groups |-> groups]
                   ELSE [raises |-> FALSE,
                         groups |-> [g \in DOMAIN groups |-> [groups[g] EXCEPT !.lr = lr.val]]] :
                   lr \in {Lr(init_lr, step_num, warmup_step)} } : TRUE

\* Line 42: the step number train() hands to the scheduler.
StepNumZeroBased(ts) == ts
StepNum(ts) == ts + 1

\* ---------------------------------------------------------------- tensors
RECURSIVE Flatten(_)
Flatten(rows) == IF rows = <<>> THEN <<>> ELSE Head(rows) \o Flatten(Tail(rows))

\* x[:, n:, :]
SliceFrom(x, n) == [r \in DOMAIN x |-> SubSeq(x[r], n + 1, Len(x[r]))]

\* Lines 61, 93, 148: t.where(target_y_r > 0, True, False)
NonNegative(v) == v >= 0
Positive(v) == v > 0
nonzero_idx(target_y_r) ==
    [r \in DOMAIN target_y_r |-> [i \in DOMAIN target_y_r[r] |-> Positive(target_y_r[r][i])]]

RECURSIVE Pick(_, _)
Pick(vals, mask) ==
    IF vals = <<>> THEN <<>>
    ELSE (IF Head(mask) THEN <<Head(vals)>> ELSE <<>>) \o Pick(Tail(vals), Tail(mask))

\* x[idx] for a boolean idx of x's shape: the selected elements, row-major, as a
\* one-dimensional tensor.
MaskIndex(x, idx) ==
    LET v == Pick(Flatten(x), Flatten(idx)) IN [shape |-> <<Len(v)>>, vals |-> v]

\* Tensor.squeeze(): every axis of size 1 is removed.
squeeze(tn) == [shape |-> SelectSeq(tn.shape, LAMBDA d : d # 1), vals |-> tn.vals]

\* Tensor.tolist(): a Python number for a 0-dimensional tensor, a list otherwise.
tolist(tn) == [scalar |-> tn.shape = <<>>, items |-> tn.vals]

\* Lines 57-66 (90-98, 145-153): what one batch adds to truth_list and pred_list.
\* `list += x` raises TypeError when x is a number.
Collected(d, o) ==
    LET target_y_r == SliceFrom(d.target_y_f, d.support_size)
        y_pred_r   == SliceFrom(o.y_pred, d.support_size)
        idx        == nonzero_idx(target_y_r)
        tr         == tolist(squeeze(MaskIndex(target_y_r, idx)))
        pr         == tolist(squeeze(MaskIndex(y_pred_r, idx)))
    IN  [raises |-> tr.scalar \/ pr.scalar, truth |-> tr.items, pred |-> pr.items]

\* sklearn's mean_absolute_error on two equally long lists; it raises ValueError
\* on an empty input (callers test for that first).
RECURSIVE SumAbsDiff(_, _)
SumAbsDiff(a, b) ==
    IF a = <<>> THEN 0 ELSE Abs(Head(a) - Head(b)) + SumAbsDiff(Tail(a), Tail(b))
mean_absolute_error(a, b) == Norm([num |-> SumAbsDiff(a, b), den |-> Len(a)])

\* sum(l) / len(l) of lines 73, 105, 160
MeanLoss(l) == DivN(SumF(l), Len(l))

\* ---------------------------------------------------------------- inputs
\* The batches a loader can yield.  The first is the episode of the specification's
\* end-to-end scenario, target_y_f = [1.5, 2.0, 0.0, 3.0, 0.0] with support_size 2.
BatchExample   == [support_size |-> 2, target_y_f |-> << <<3, 4, 0, 6, 0>> >>]
BatchTwo       == [support_size |-> 1, target_y_f |-> << <<2, 4, 6>> >>]
BatchNone      == [support_size |-> 1, target_y_f |-> << <<2, 0, 0>> >>]
BatchTwoRows   == [support_size |-> 1, target_y_f |-> << <<0, 4, 0>>, <<2, 0, 6>> >>]
BatchGap       == [support_size |-> 2, target_y_f |-> << <<2, 2, 4, 0, 6>> >>]
BatchThree     == [support_size |-> 0, target_y_f |-> << <<2, 4, 2>> >>]

EpochBatches == {BatchTwo, BatchNone, BatchExample}
DataBatches  == {BatchExample, BatchTwo, BatchNone, BatchTwoRows, BatchGap, BatchThree}

\* The predictor is a black box: y_pred has target_y_f's shape.  Its values here tag
\* the position they stand at (10 * episode + position), shifted by one of shifts.
YPreds(d, shifts) ==
    { [r \in DOMAIN d.target_y_f |->
          [i \in DOMAIN d.target_y_f[r] |-> sh + 10 * r + i]] : sh \in shifts }

Finite(n) == { Num(l) : l \in 1..n }

\* ---------------------------------------------------------------- state after construction
NoBatch == [support_size |-> 0, target_y_f |-> <<>>]
NoOut == [y_pred |-> <<>>, loss |-> Num(0)]
NoSched == [init_lr |-> Zero, warmup_step |-> 0, step_num |-> PyInt(0),
            lr |-> [raises |-> FALSE, val |-> Zero, pick |-> 0], prev |-> <<>>]

\* Lines 231-232: one model (ref 0, parameters numbered by the optimizer steps applied
\* to them) and an Adam optimizer over model.parameters(): one parameter group.
\* The run starts either at the script's call of train (line 234) or, for test(),
\* at a call test(model, test_loader, args) of its own.
Start(c) ==
    /\ cfg = c
    /\ pc \in {"main", "call_test"}
    /\ err = "none"
    /\ epoch = -1
    /\ train_step = 0
    /\ best_loss = Inf
    /\ best_model = <<>>
    /\ trigger_count = <<>>
    /\ heap = (0 :> 0)
    /\ opt_steps = 0
    /\ param_groups = << [lr |-> c.lr] >>
    /\ training = TRUE
    /\ bi = 0
    /\ data = NoBatch
    /\ out = NoOut
    /\ truth_list = <<>> /\ pred_list = <<>>
    /\ train_loss_list = <<>> /\ valid_loss_list = <<>> /\ test_loss_list = <<>>
    /\ train_metrics = <<>> /\ val_metrics = <<>> /\ test_metrics = <<>>
    /\ ckpt = <<>>
    /\ returned = <<>>
    /\ seen = <<>>
    /\ val_hist = <<>>
    /\ writes = {}
    /\ sched = NoSched

\* Runs of up to MaxEpochs epochs over loaders that hold one batch each; a validation
\* batch loss is any of 1..MaxLoss or +inf.
EpochCfgs ==
    { [n_epochs |-> n, ntrain |-> 1, nvalid |-> 1, ntest |-> 1,
       batches |-> EpochBatches, shifts |-> {0, 100},
       train_losses |-> {Num(1)},
       eval_losses |-> Finite(MaxLoss) \cup {Inf}, lr |-> LrDefault] : n \in 0..MaxEpochs }

\* Runs of at most one epoch over loaders of 0..MaxBatches batches each (the test
\* loader as long as the validation loader).
DataCfgs ==
    { [n_epochs |-> n, ntrain |-> a, nvalid |-> b, ntest |-> b,
       batches |-> DataBatches, shifts |-> {0},
       train_losses |-> {Num(1)},
       eval_losses |-> {Num(1), Num(2)}, lr |-> LrDefault] : n \in 0..1, a, b \in 0..MaxBatches }

Init == \E c \in EpochCfgs : Start(c)
InitData == \E c \in DataCfgs : Start(c)

\* ---------------------------------------------------------------- helpers of the actions
trainState == <<heap, opt_steps, param_groups, train_step>>
bestState == <<best_loss, best_model, trigger_count, ckpt, writes>>
lossLists == <<train_loss_list, valid_loss_list, test_loss_list>>
metrics == <<train_metrics, val_metrics, test_metrics>>

Raise(e) == pc' = "error" /\ err' = e

\* Line 37: range(n_epochs) has a next element after e.
LoopStopsOneEarly(e, n) == e + 2 < n
LoopContinues(e, n) == e + 1 < n

\* Line 114
ImprovedOrEqual(loss, best) == Le(loss, best)
Improved(loss, best) == Lt(loss, best)

\* Line 116: copy.deepcopy(model) makes a new object, fresh, with src's parameters.
aliasing(h, src, fresh) == [ref |-> src, heap |-> h]
deepcopy(h, src, fresh) == [ref |-> fresh, heap |-> (fresh :> h[src]) @@ h]

\* Lines 76, 88 and 131, 143: a forward pass under t.no_grad(), with no optimizer
\* call after it, leaves the model objects, the optimizer and the step counter as
\* they are.  ts is [heap, opt_steps, param_groups, train_step].
optimizer_step(ts) ==
    [ts EXCEPT !.heap = [ts.heap EXCEPT ![0] = @ + 1], !.opt_steps = @ + 1]
eval_forward_stepping(ts) == optimizer_step(ts)
eval_forward(ts) == ts

TS == [heap |-> heap, opt_steps |-> opt_steps, param_groups |-> param_groups,
       train_step |-> train_step]

\* the part the three copies of the per-batch collection share
Collect(next) ==
    LET c == Collected(data, out) IN
    /\ seen' = Append(seen, [data |-> data, out |-> out])
    /\ IF c.raises
       THEN /\ Raise("TypeError")
            /\ UNCHANGED <<truth_list, pred_list>>
       ELSE /\ truth_list' = truth_list \o c.truth
            /\ pred_list' = pred_list \o c.pred
            /\ pc' = next
            /\ err' = err

\* ---------------------------------------------------------------- train()
\* Line 234 and lines 29-35.
MainCallTrain ==
    /\ pc = "main"
    /\ pc' = "epoch_head"
    /\ best_loss' = Inf
    /\ train_metrics' = <<>> /\ val_metrics' = <<>>
    /\ train_step' = 0
    /\ UNCHANGED <<cfg, err, epoch, best_model, trigger_count, heap, opt_steps, param_groups,
                   training, bi, data, out, truth_list, pred_list, lossLists, test_metrics,
                   ckpt, returned, seen, val_hist, writes, sched>>

\* Lines 37-40: the next epoch begins.
EpochBegin ==
    /\ pc = "epoch_head"
    /\ LoopContinues(epoch, cfg.n_epochs)
    /\ epoch' = epoch + 1
    /\ training' = TRUE
    /\ truth_list' = <<>> /\ pred_list' = <<>>
    /\ train_loss_list' = <<>>
    /\ bi' = 0
    /\ seen' = <<>>
    /\ pc' = "train_loop"
    /\ UNCHANGED <<cfg, err, trainState, bestState, data, out, valid_loss_list, test_loss_list,
                   metrics, returned, val_hist, sched>>

\* Lines 41-42: the loader yields a batch and the rate of this step is set.
TrainAdjust ==
    /\ pc = "train_loop"
    /\ bi < cfg.ntrain
    /\ \E d \in cfg.batches : data' = d
    /\ bi' = bi + 1
    /\ \E r \in {adjust_learning_rate(cfg.lr, param_groups, PyInt(StepNum(train_step)),
                                      WarmupDefault)} :
         /\ param_groups' = r.groups
         /\ IF r.raises THEN Raise("ZeroDivisionError") ELSE pc' = "train_fwd" /\ err' = err
    /\ UNCHANGED <<cfg, epoch, train_step, heap, opt_steps, bestState, training, out,
                   truth_list, pred_list, lossLists, metrics, returned, seen, val_hist, sched>>

\* Lines 43-54: forward pass, backward pass, optimizer step, step counter.
TrainStep ==
    /\ pc = "train_fwd"
    /\ \E yp \in YPreds(data, cfg.shifts), l \in cfg.train_losses : out' = [y_pred |-> yp, loss |-> l]
    /\ heap' = optimizer_step(TS).heap
    /\ opt_steps' = optimizer_step(TS).opt_steps
    /\ train_step' = train_step + 1
    /\ pc' = "train_collect"
    /\ UNCHANGED <<cfg, err, epoch, param_groups, bestState, training, bi, data,
                   truth_list, pred_list, lossLists, metrics, returned, seen, val_hist, sched>>

\* Lines 56-68.
TrainCollect ==
    /\ pc = "train_collect"
    /\ Collect("train_loop")
    /\ train_loss_list' = IF Collected(data, out).raises THEN train_loss_list
                          ELSE Append(train_loss_list, out.loss)
    /\ UNCHANGED <<cfg, epoch, trainState, bestState, training, bi, data, out,
                   valid_loss_list, test_loss_list, metrics, returned, val_hist, sched>>

\* Line 41 (the loader is exhausted) and lines 69-73.
TrainMetrics ==
    /\ pc = "train_loop"
    /\ bi >= cfg.ntrain
    /\ IF truth_list = <<>>
       THEN Raise("ValueError") /\ UNCHANGED train_metrics
       ELSE /\ train_metrics' = << [mae |-> mean_absolute_error(truth_list, pred_list),
                                    loss |-> MeanLoss(train_loss_list)] >>
            /\ pc' = "train_done"
            /\ err' = err
    /\ UNCHANGED <<cfg, epoch, trainState, bestState, training, bi, data, out, truth_list,
                   pred_list, lossLists, val_metrics, test_metrics, returned, seen, val_hist,
                   sched>>

\* Lines 75-78.
ValidBegin ==
    /\ pc = "train_done"
    /\ training' = FALSE
    /\ truth_list' = <<>> /\ pred_list' = <<>>
    /\ valid_loss_list' = <<>>
    /\ bi' = 0
    /\ seen' = <<>>
    /\ pc' = "valid_loop"
    /\ UNCHANGED <<cfg, err, epoch, trainState, bestState, data, out, train_loss_list,
                   test_loss_list, metrics, returned, val_hist, sched>>

\* Lines 79-88: the loader yields a batch; forward pass only.
ValidForward ==
    /\ pc = "valid_loop"
    /\ bi < cfg.nvalid
    /\ \E d \in cfg.batches :
         /\ data' = d
         /\ \E yp \in YPreds(d, cfg.shifts), l \in cfg.eval_losses : out' = [y_pred |-> yp, loss |-> l]
    /\ bi' = bi + 1
    /\ heap' = eval_forward(TS).heap
    /\ opt_steps' = eval_forward(TS).opt_steps
    /\ param_groups' = eval_forward(TS).param_groups
    /\ train_step' = eval_forward(TS).train_step
    /\ pc' = "valid_collect"
    /\ UNCHANGED <<cfg, err, epoch, bestState, training, truth_list, pred_list, lossLists,
                   metrics, returned, seen, val_hist, sched>>

\* Lines 90-100.
ValidCollect ==
    /\ pc = "valid_collect"
    /\ Collect("valid_loop")
    /\ valid_loss_list' = IF Collected(data, out).raises THEN valid_loss_list
                          ELSE Append(valid_loss_list, out.loss)
    /\ UNCHANGED <<cfg, epoch, trainState, bestState, training, bi, data, out,
                   train_loss_list, test_loss_list, metrics, returned, val_hist, sched>>

\* Line 79 (the loader is exhausted) and lines 101-105.
ValidMetrics ==
    /\ pc = "valid_loop"
    /\ bi >= cfg.nvalid
    /\ IF truth_list = <<>>
       THEN Raise("ValueError") /\ UNCHANGED <<val_metrics, val_hist>>
       ELSE /\ val_metrics' = << [mae |-> mean_absolute_error(truth_list, pred_list),
                                  loss |-> MeanLoss(valid_loss_list)] >>
            /\ val_hist' = Append(val_hist, MeanLoss(valid_loss_list))
            /\ pc' = "valid_done"
            /\ err' = err
    /\ UNCHANGED <<cfg, epoch, trainState, bestState, training, bi, data, out, truth_list,
                   pred_list, lossLists, train_metrics, test_metrics, returned, seen, sched>>

\* Lines 107-122: the epoch's report (epochs is the global of line 228), then the
\* best-model decision: deep copy, trigger counter, checkpoint file.  The copy that
\* best_model named before is dropped with the rebinding.
EpochEnd ==
    /\ pc = "valid_done"
    /\ IF Improved(val_metrics[1].loss, best_loss)
       THEN LET cp == deepcopy(heap, 0, epoch + 1) IN
            /\ best_loss' = val_metrics[1].loss
            /\ best_model' = <<cp.ref>>
            /\ heap' = [r \in {0, cp.ref} |-> cp.heap[r]]
            /\ trigger_count' = <<0>>
            /\ ckpt' = << [model_state_dict |-> cp.heap[cp.ref],
                           optimizer_state_dict |-> [steps |-> opt_steps,
                                                     param_groups |-> param_groups]] >>
            /\ writes' = writes \cup {epoch}
       ELSE UNCHANGED <<bestState, heap>>
    /\ pc' = "epoch_head"
    /\ UNCHANGED <<cfg, err, epoch, opt_steps, param_groups, train_step, training, bi, data,
                   out, truth_list, pred_list, lossLists, metrics, returned, seen, val_hist,
                   sched>>

\* Line 37 (range(n_epochs) is exhausted) and line 124: best_model is a local that
\* only line 116 binds; reading it unbound raises UnboundLocalError.
TrainReturn ==
    /\ pc = "epoch_head"
    /\ ~LoopContinues(epoch, cfg.n_epochs)
    /\ IF best_model = <<>>
       THEN Raise("UnboundLocalError") /\ UNCHANGED returned
       ELSE returned' = best_model /\ pc' = "train_returned" /\ err' = err
    /\ UNCHANGED <<cfg, epoch, trainState, bestState, training, bi, data, out, truth_list,
                   pred_list, lossLists, metrics, seen, val_hist, sched>>

\* ---------------------------------------------------------------- the script after train()
\* Line 236: test(model, test_loader) leaves out the parameter args of line 126, so
\* the call raises TypeError before test's body runs; lines 239-242 are not reached.
MainCallTest ==
    /\ pc = "train_returned"
    /\ Raise("TypeError")
    /\ UNCHANGED <<cfg, epoch, trainState, bestState, training, bi, data, out, truth_list,
                   pred_list, lossLists, metrics, returned, seen, val_hist, sched>>

\* ---------------------------------------------------------------- test()
\* Lines 126-133.
TestCall ==
    /\ pc = "call_test"
    /\ test_metrics' = <<>>
    /\ training' = FALSE
    /\ truth_list' = <<>> /\ pred_list' = <<>>
    /\ test_loss_list' = <<>>
    /\ bi' = 0
    /\ seen' = <<>>
    /\ pc' = "test_loop"
    /\ UNCHANGED <<cfg, err, epoch, trainState, bestState, data, out, train_loss_list,
                   valid_loss_list, train_metrics, val_metrics, returned, val_hist, sched>>

\* Lines 134-143.
TestForward ==
    /\ pc = "test_loop"
    /\ bi < cfg.ntest
    /\ \E d \in cfg.batches :
         /\ data' = d
         /\ \E yp \in YPreds(d, cfg.shifts), l \in cfg.eval_losses : out' = [y_pred |-> yp, loss |-> l]
    /\ bi' = bi + 1
    /\ heap' = eval_forward(TS).heap
    /\ opt_steps' = eval_forward(TS).opt_steps
    /\ param_groups' = eval_forward(TS).param_groups
    /\ train_step' = eval_forward(TS).train_step
    /\ pc' = "test_collect"
    /\ UNCHANGED <<cfg, err, epoch, bestState, training, truth_list, pred_list, lossLists,
                   metrics, returned, seen, val_hist, sched>>

\* Lines 145-155.
TestCollect ==
    /\ pc = "test_collect"
    /\ Collect("test_loop")
    /\ test_loss_list' = IF Collected(data, out).raises THEN test_loss_list
                         ELSE Append(test_loss_list, out.loss)
    /\ UNCHANGED <<cfg, epoch, trainState, bestState, training, bi, data, out,
                   train_loss_list, valid_loss_list, metrics, returned, val_hist, sched>>

\* Line 134 (the loader is exhausted) and lines 156-165.
TestMetrics ==
    /\ pc = "test_loop"
    /\ bi >= cfg.ntest
    /\ IF truth_list = <<>>
       THEN Raise("ValueError") /\ UNCHANGED test_metrics
       ELSE /\ test_metrics' = << [mae |-> mean_absolute_error(truth_list, pred_list),
                                   loss |-> MeanLoss(test_loss_list)] >>
            /\ pc' = "test_returned"
            /\ err' = err
    /\ UNCHANGED <<cfg, epoch, trainState, bestState, training, bi, data, out, truth_list,
                   pred_list, lossLists, train_metrics, val_metrics, returned, seen, val_hist,
                   sched>>

Next ==
    \/ MainCallTrain \/ EpochBegin \/ TrainAdjust \/ TrainStep \/ TrainCollect
    \/ TrainMetrics \/ ValidBegin \/ ValidForward \/ ValidCollect \/ ValidMetrics
    \/ EpochEnd \/ TrainReturn \/ MainCallTest
    \/ TestCall \/ TestForward \/ TestCollect \/ TestMetrics

Spec == Init /\ [][Next]_vars
SpecData == InitData /\ [][Next]_vars

\* ---------------------------------------------------------------- the schedule alone
\* adjust_learning_rate called on its own, on an optimizer constructed with the rate
\* init_lr (as line 232 constructs it), for consecutive step numbers; train() and
\* its step counter take no part.  init_lr ranges over InitLrs.
\* warmup_step: the default, which line 42 leaves in place, and the small lengths
Warmups == (1..MaxWarmup) \cup {WarmupDefault}

\* 2^53, the step number from which float(step_num) rounds
HugeStep == <<2^11, 0, 0, 0>>

\* the step numbers a walk starts from
Starts == {PyInt(1), HugeStep}

SchedAt(i, w, k, prev) ==
    [init_lr |-> i, warmup_step |-> w, step_num |-> k, lr |-> Lr(i, k, w), prev |-> prev]

InitLR ==
    /\ cfg = [n_epochs |-> 0, ntrain |-> 0, nvalid |-> 0, ntest |-> 0, batches |-> {}, shifts |-> {},
              train_losses |-> {}, eval_losses |-> {}, lr |-> LrDefault]
    /\ epoch = -1
    /\ train_step = 0
    /\ best_loss = Inf
    /\ best_model = <<>>
    /\ trigger_count = <<>>
    /\ heap = (0 :> 0)
    /\ opt_steps = 0
    /\ training = TRUE
    /\ bi = 0
    /\ data = NoBatch
    /\ out = NoOut
    /\ truth_list = <<>> /\ pred_list = <<>>
    /\ train_loss_list = <<>> /\ valid_loss_list = <<>> /\ test_loss_list = <<>>
    /\ train_metrics = <<>> /\ val_metrics = <<>> /\ test_metrics = <<>>
    /\ ckpt = <<>>
    /\ returned = <<>>
    /\ seen = <<>>
    /\ val_hist = <<>>
    /\ writes = {}
    /\ \E i \in 1..MaxInitLrs, w \in Warmups, k \in Starts :
         \E r \in {adjust_learning_rate(Dbl(InitLrs[i]), << [lr |-> Dbl(InitLrs[i])] >>, k, w)} :
           /\ sched = SchedAt(Dbl(InitLrs[i]), w, k, <<>>)
           /\ param_groups = r.groups
           /\ pc = IF r.raises THEN "error" ELSE "schedule"
           /\ err = IF r.raises THEN "ZeroDivisionError" ELSE "none"

\* The next call of adjust_learning_rate: step_num + 1.
ScheduleStep ==
    /\ pc = "schedule"
    /\ IF sched.step_num[1] = 0
       THEN sched.step_num[3] * LimbBase + sched.step_num[4] < sched.warmup_step + MaxDecaySteps
       ELSE sched.step_num[4] < MaxDecaySteps
    /\ sched' = SchedAt(sched.init_lr, sched.warmup_step, IncLimbs(sched.step_num), <<sched.lr>>)
    /\ \E r \in {adjust_learning_rate(sched.init_lr, param_groups, IncLimbs(sched.step_num),
                                      sched.warmup_step)} :
         /\ param_groups' = r.groups
         /\ IF r.raises THEN Raise("ZeroDivisionError") ELSE pc' = pc /\ err' = err
    /\ UNCHANGED <<cfg, epoch, heap, opt_steps, train_step, bestState, training, bi, data, out,
                   truth_list, pred_list, lossLists, metrics, returned, seen, val_hist>>

NextLR == ScheduleStep

SpecLR == InitLR /\ [][NextLR]_vars

\* ================================================================ properties
\* ---------------------------------------------------------------- helpers of the properties
\* The entries of x at the query positions (index > support_size) whose target_y_f
\* is strictly positive, episode by episode, in order.
RECURSIVE RowQueryPositives(_, _, _, _)
RowQueryPositives(trow, xrow, i, support_size) ==
    IF i > Len(trow) THEN <<>>
    ELSE (IF i > support_size /\ trow[i] > 0 THEN <<xrow[i]>> ELSE <<>>)
         \o RowQueryPositives(trow, xrow, i + 1, support_size)

RECURSIVE QueryPositives(_, _, _, _)
QueryPositives(t, x, r, support_size) ==
    IF r > Len(t) THEN <<>>
    ELSE RowQueryPositives(t[r], x[r], 1, support_size)
         \o QueryPositives(t, x, r + 1, support_size)

ExpectedTruth(b) == QueryPositives(b.data.target_y_f, b.data.target_y_f, 1, b.data.support_size)
ExpectedPred(b) == QueryPositives(b.data.target_y_f, b.out.y_pred, 1, b.data.support_size)

RECURSIVE ConcatOver(_, _, _)
ConcatOver(Op(_), s, i) == IF i > Len(s) THEN <<>> ELSE Op(s[i]) \o ConcatOver(Op, s, i + 1)

\* number of strictly positive query positions of the batches of the running pass
TotalPositives == Len(ConcatOver(ExpectedTruth, seen, 1))

MaxOf(S) == CHOOSE m \in S : \A x \in S : x <= m

\* the epoch-end decision of the e-th finished validation (epoch e - 1) has been taken
Decided(e) == e < Len(val_hist) \/ pc # "valid_done"

\* ---------------------------------------------------------------- C1
\* C1: the checkpoint file is written at the end of epoch e exactly when the
\* validation loss of epoch e is strictly less than the validation loss of every
\* earlier epoch (than +infinity for the first epoch); for the losses
\* [5, 3, 4, 2] the writes are those of epochs 0, 1 and 3.
C1_WrittenIffStrictlyBetter ==
    /\ \A e \in 1..Len(val_hist) :
         Decided(e) =>
           ((e - 1) \in writes <=>
              /\ Lt(val_hist[e], Inf)
              /\ \A j \in 1..(e - 1) : Lt(val_hist[e], val_hist[j]))
    /\ (val_hist = <<Num(5), Num(3), Num(4), Num(2)>> /\ Decided(4)) => writes = {0, 1, 3}

C1_Witness ==
    /\ val_hist = <<Num(5), Num(3), Num(4), Num(2)>>
    /\ pc = "epoch_head"
    /\ writes = {0, 1, 3}
    /\ ckpt # <<>>

\* ---------------------------------------------------------------- C2
\* C2: when its epochs are over train returns a model: the best model if some
\* epoch improved on the best validation loss, the initial model otherwise.
C2_TrainAlwaysReturnsModel ==
    [][(pc = "epoch_head" /\ epoch + 1 >= cfg.n_epochs)
         => /\ pc' = "train_returned"
            /\ returned' = IF writes # {} THEN best_model ELSE <<0>>]_vars

\* ---------------------------------------------------------------- C3
\* C3: after every batch a loop has processed, truth_list and pred_list hold, for
\* the batches of the pass so far, exactly the target_y_f and y_pred values at the
\* query positions with strictly positive target_y_f (k entries per batch, for any
\* k >= 0); for support_size 2 and target_y_f [1.5, 2.0, 0.0, 3.0, 0.0] that is [3.0].
C3_ListsHoldPositiveQueryEntries ==
    /\ truth_list = ConcatOver(ExpectedTruth, seen, 1)
    /\ pred_list = ConcatOver(ExpectedPred, seen, 1)
    /\ (Len(seen) = 1 /\ seen[1].data = BatchExample) => truth_list = <<6>>

\* ---------------------------------------------------------------- C4
\* C4: once train has returned, the script's call of test enters the evaluation
\* loop (which then returns the metrics the summary file records); the call does not
\* end the run.
C4_TestRunsAfterTrain ==
    [][pc = "train_returned" => (pc' = "test_loop" /\ err' = "none")]_vars

\* ---------------------------------------------------------------- C5
\* C5 as claimed: metrics are produced only by a pass every batch of which had at
\* least one strictly positive query position (a pass with a batch of none ends in
\* an error before its metrics).
C5_ZeroBatchIsFatal ==
    pc \in {"train_done", "valid_done", "test_returned"} =>
        \A i \in 1..Len(seen) : Len(ExpectedTruth(seen[i])) > 0

\* C5 as amended: a pass whose batches have no strictly positive query position at all
\* ends the run with ValueError: no metrics are produced from the empty collection,
\* and no checkpoint decision is taken for that epoch.
C5_EmptyPassIsFatal ==
    /\ pc \in {"train_done", "valid_done", "test_returned"} => TotalPositives > 0
    /\ err = "ValueError" =>
         /\ pc = "error"
         /\ TotalPositives = 0
         /\ truth_list = <<>>
         /\ epoch \notin writes
         /\ epoch >= 0 => Len(val_hist) = epoch
         /\ test_metrics = <<>>

C5_Witness ==
    /\ err = "ValueError"
    /\ Len(seen) = 2
    /\ TotalPositives = 0

\* ---------------------------------------------------------------- C6
\* the rate the default args.lr has after the scheduler's call for step k of the
\* default warmup (k = 0: the rate the optimizer was constructed with, line 232)
DefaultRates == [k \in 1..(MaxEpochs + 2) |-> Lr(LrDefault, PyInt(k), WarmupDefault).val]
RateAtStep(k) == IF k = 0 THEN LrDefault ELSE DefaultRates[k]

\* C6: the scheduler is called with the run-wide number of the optimizer step at
\* hand: before the k-th optimizer.step() of the run every parameter group holds the
\* rate of step_num = k; step_num is never below 1 (for step_num = 0 line 22 raises
\* ZeroDivisionError) and is not reset between epochs.
C6_StepNumCountsOptimizerSteps ==
    /\ cfg.lr = LrDefault
    /\ train_step = opt_steps
    /\ pc = "train_fwd" =>
         \A g \in DOMAIN param_groups : param_groups[g].lr = RateAtStep(opt_steps + 1)
    /\ pc # "train_fwd" =>
         \A g \in DOMAIN param_groups : param_groups[g].lr = RateAtStep(opt_steps)
    /\ err # "ZeroDivisionError"
    /\ pc \in {"train_fwd", "train_collect"} =>
         \A g \in DOMAIN param_groups :
            \E k \in 1..(opt_steps + 1) : param_groups[g].lr = RateAtStep(k)

C6_Witness ==
    /\ pc = "train_fwd"
    /\ epoch = 2
    /\ opt_steps = 2
    /\ param_groups[1].lr = RateAtStep(3)
    /\ param_groups[1].lr # RateAtStep(1)

\* ---------------------------------------------------------------- C7
\* C7: the best model is a snapshot: its parameters are those the live model had at
\* the end of the last improving epoch (after (e + 1) * ntrain optimizer steps for
\* epoch e), whatever later epochs did to the live model; train returns that object.
C7_BestModelIsSnapshot ==
    /\ best_model # <<>> =>
         /\ writes # {}
         /\ heap[best_model[1]] = (MaxOf(writes) + 1) * cfg.ntrain
    /\ returned # <<>> =>
         /\ returned = best_model
         /\ heap[returned[1]] = (MaxOf(writes) + 1) * cfg.ntrain

C7_Witness ==
    /\ returned # <<>>
    /\ heap[0] = 3
    /\ heap[returned[1]] = 1

\* ---------------------------------------------------------------- C8
\* C8: no step of a validation phase or of the evaluation loop changes the model
\* parameters, the optimizer state, the step counter or the learning rate, and no
\* step of the evaluation loop writes the checkpoint file.
C8_EvaluationLeavesTrainingState ==
    [][/\ pc \in {"train_done", "valid_loop", "valid_collect",
                  "call_test", "test_loop", "test_collect"}
            => UNCHANGED <<heap, opt_steps, param_groups, train_step>>
       /\ pc \in {"call_test", "test_loop", "test_collect"} => UNCHANGED ckpt]_vars

C8_Witness ==
    /\ pc = "valid_done"
    /\ Len(seen) = 2
    /\ opt_steps = 2
    /\ heap[0] = 2

\* ---------------------------------------------------------------- C9
\* m - 1 on a 4-limb mantissa
DecLimbs(m) ==
    LET b4 == IF m[4] = 0 THEN 1 ELSE 0
        b3 == IF m[3] - b4 < 0 THEN 1 ELSE 0
        b2 == IF m[2] - b3 < 0 THEN 1 ELSE 0
    IN  <<m[1] - b2, (m[2] - b3 + LimbBase) % LimbBase, (m[3] - b4 + LimbBase) % LimbBase,
          (m[4] - 1 + LimbBase) % LimbBase>>

\* the next double below a positive finite x
Pred(x) ==
    IF x.m = <<2^10, 0, 0, 0>> /\ x.e > -1074
    THEN [e |-> x.e - 1, m |-> <<2^11 - 1, LimbBase - 1, LimbBase - 1, LimbBase - 1>>]
    ELSE [e |-> x.e, m |-> DecLimbs(x.m)]

RECURSIVE Above(_, _)
Above(y, n) == IF n = 0 THEN {y} ELSE {y} \cup Above(Succ(y), n - 1)
RECURSIVE Below(_, _)
Below(y, n) == IF n = 0 THEN {y} ELSE {y} \cup Below(Pred(y), n - 1)

\* x is y or one of the n doubles next to y on either side
WithinUlps(x, y, n) == x \in Above(y, n) \cup Below(y, n)

\* x is a normal double: finite, and neither zero nor subnormal
Normal(x) == x.e <= 971 /\ x.m[1] >= 2^10

\* min(step_num, 2^28): what comparing a step number with a warmup length needs
Clip(step_num) ==
    IF step_num[1] = 0 /\ step_num[2] = 0 THEN step_num[3] * LimbBase + step_num[4] ELSE 2^28

\* C9 as claimed: for init_lr > 0 and warmup_step = w the rate rises strictly from
\* each step to the next up to step w, falls strictly from each step to the next
\* after step w, and is largest, and equal to init_lr, at step w alone; min returns
\* its first argument for step_num <= w and its second for step_num > w.
C9_WarmupThenDecay ==
    pc = "schedule" =>
        LET w == sched.warmup_step
            k == Clip(sched.step_num)
            top == sched.init_lr
        IN  /\ (sched.prev # <<>> /\ k <= w) => LtD(sched.prev[1].val, sched.lr.val)
            /\ (sched.prev # <<>> /\ k > w) => LtD(sched.lr.val, sched.prev[1].val)
            /\ k <= w => sched.lr.pick = 1
            /\ k > w => sched.lr.pick = 2
            /\ k = w => sched.lr.val = top
            /\ k # w => LtD(sched.lr.val, top)

\* C9 as amended: for step numbers below 2^42, min returns its first argument for
\* step_num < w and its second for step_num > w (at step_num = w its arguments
\* agree up to rounding and it returns either); and where the rates are normal
\* doubles (they neither underflow nor overflow), the rate rises strictly from each
\* step to the next up to step w, falls strictly from each step to the next after
\* step w, and is largest at step w alone, where it is within eight units in the last
\* place of init_lr.
C9_WarmupThenDecayRounded ==
    (pc = "schedule" /\ sched.step_num[1] = 0) =>
        LET w == sched.warmup_step
            k == Clip(sched.step_num)
            val == sched.lr.val
            peak == Lr(sched.init_lr, PyInt(w), w).val
        IN  /\ ~sched.lr.raises
            /\ k < w => sched.lr.pick = 1
            /\ k > w => sched.lr.pick = 2
            /\ (sched.prev # <<>> /\ k <= w /\ Normal(sched.prev[1].val) /\ Normal(val))
                   => LtD(sched.prev[1].val, val)
            /\ (sched.prev # <<>> /\ k > w /\ Normal(sched.prev[1].val) /\ Normal(val))
                   => LtD(val, sched.prev[1].val)
            /\ (k = w /\ Normal(val)) => WithinUlps(val, sched.init_lr, 8)
            /\ (k # w /\ Normal(val) /\ Normal(peak)) => LtD(val, peak)

\* the default rate 1e-4 at the end of the default warmup: min returned its second
\* argument and the rate, the largest so far, is below init_lr
C9_Witness ==
    /\ pc = "schedule"
    /\ sched.init_lr = Dbl(InitLrs[1])
    /\ sched.warmup_step = WarmupDefault
    /\ sched.step_num = PyInt(WarmupDefault)
    /\ sched.lr.pick = 2
    /\ Normal(sched.lr.val)
    /\ LtD(sched.lr.val, sched.init_lr)
    /\ LtD(sched.prev[1].val, sched.lr.val)

\* ---------------------------------------------------------------- C10
\* C10: when train leaves its loop it has run exactly n_epochs epochs, each with all
\* its training batches and a finished validation, whatever the validation losses
\* were; the trigger counter is unbound or 0 throughout.
C10_NoEarlyStop ==
    /\ (pc = "train_returned" \/ returned # <<>> \/ err = "UnboundLocalError") =>
         /\ Len(val_hist) = cfg.n_epochs
         /\ train_step = cfg.n_epochs * cfg.ntrain
         /\ epoch = cfg.n_epochs - 1
    /\ trigger_count \in {<<>>, <<0>>}

C10_Witness ==
    /\ pc = "train_returned"
    /\ cfg.n_epochs = 4
    /\ Len(val_hist) = 4
    /\ writes = {0}
    /\ trigger_count = <<0>>

====
